---- MODULE Spec2Model ----
(***************************************************************************)
(* Verification model of the HLS-VI historical orchestration pipeline:     *)
(* the progress ledger (common/granule_tracker.py), the queue feeder, the  *)
(* job monitor, the job requeuer and the attempt log store.                *)
(***************************************************************************)
EXTENDS Integers, Sequences, FiniteSets, TLC

(***************************************************************************)
(* Bounds of the model.                                                    *)
(***************************************************************************)
\* largest granule_submit_count a trigger payload carries in the model
MaxSubmitCount == 2
\* number of get_next_granule_ids calls made on one tracking value
MaxCalls == 3
\* number of feeder invocations started in one behaviour
MaxInvocations == 3
\* max_active_jobs handed to queue_feeder in the model
MaxActiveJobs == 2
\* largest attempt number of a job the requeuer submits in the model
MaxAttempt == 4
\* number of put_event_details calls in one behaviour of the log store
MaxPuts == 3
\* largest number of messages on the retry queue the requeuer starts with
MaxQueued == 3
\* largest attempt number of a message the requeuer starts with
MaxQueuedAttempt == 2
\* largest attempt number logged in the behaviours of the log store
MaxLogAttempt == 2
\* largest exit code of a job detail payload handed to get_job_outcome
MaxExitCode == 4
\* largest number of jobs of the queue in one status
MaxStatusJobs == 2
\* largest number of job summaries list_jobs returns in one page
MaxPageSize == 2
\* largest threshold handed to active_jobs_below_threshold
MaxThreshold == 3
\* acquisition years of the granule identifier strings that are parsed
FirstYear == 2023
LastYear == 2024
\* largest three-digit day-of-year field of those strings
MaxJulian == 367
\* largest attempt number of an event written to a job's environment
MaxEventAttempt == 11
\* largest attempt number logged by overlapping put_event_details calls
MaxPutAttempt == 1

\* StackSettings.PROCESSING_JOB_RETRY_ATTEMPTS: internal retries of a job
PROCESSING_JOB_RETRY_ATTEMPTS == 3
\* StackSettings.JOB_RETRY_MAX_ATTEMPTS: "Give up requeueing after N attempts"
JOB_RETRY_MAX_ATTEMPTS == 3

\* granule_submit_count is an unvalidated int of the trigger payload
\* (queue_feeder/handler.py:96): negative, zero and positive counts occur.
SubmitCounts == (0 - 1)..MaxSubmitCount

Min(a, b) == IF a <= b THEN a ELSE b

(***************************************************************************)
(* The catalog: inventory files in the order _list_inventories returns     *)
(* them, each a table of (granule_id, status) rows.  An S3 path is the     *)
(* sequence of its "/" separated components.                               *)
(***************************************************************************)
InventoryPaths ==
    << <<"inventories", "cumulus_rds_granule_1.parquet">>,
       <<"inventories", "cumulus_rds_granule_2.parquet">> >>

GranuleNames == << <<"A", "B", "C">>, <<"D", "E">> >>

Statuses == {"completed", "queued"}

\* the longest inventory file of the model
MaxRows == Len(GranuleNames[1])

\* every catalog with the paths and granule ids above and any row statuses
Catalogs ==
    { [i \in 1..Len(InventoryPaths) |->
          [inventory |-> InventoryPaths[i],
           rows |-> [r \in 1..Len(GranuleNames[i]) |->
                        [granule_id |-> GranuleNames[i][r],
                         status |-> st[i][r]]]]] :
      st \in [1..Len(InventoryPaths) -> [1..MaxRows -> Statuses]] }

\* the end-to-end catalog of the test-suite shape: A completed, B queued, ...
FixedCatalog ==
    [i \in 1..Len(InventoryPaths) |->
        [inventory |-> InventoryPaths[i],
         rows |-> [r \in 1..Len(GranuleNames[i]) |->
                      [granule_id |-> GranuleNames[i][r],
                       status |-> IF GranuleNames[i][r] = "B"
                                  THEN "queued" ELSE "completed"]]]]

\* two inventory files that share a base name under different prefixes, as
\* inventory_converter writes them for source keys a/... and b/...
CollidingPaths ==
    << <<"inventories", "a", "cumulus_rds_granule_1.parquet">>,
       <<"inventories", "b", "cumulus_rds_granule_1.parquet">> >>

CollidingCatalog ==
    [i \in 1..Len(CollidingPaths) |->
        [inventory |-> CollidingPaths[i], rows |-> FixedCatalog[i].rows]]

\* three inventory files in the key order list_objects_v2 returns them, the
\* third sharing its base name with the first
ReorderedPaths ==
    << <<"inventories", "a", "cumulus_rds_granule_1.parquet">>,
       <<"inventories", "a", "cumulus_rds_granule_2.parquet">>,
       <<"inventories", "b", "cumulus_rds_granule_1.parquet">> >>

ReorderedCatalog ==
    << [inventory |-> ReorderedPaths[1],
        rows |-> SubSeq(FixedCatalog[1].rows, 1, 2)],
       [inventory |-> ReorderedPaths[2],
        rows |-> SubSeq(FixedCatalog[1].rows, 3, 3)],
       [inventory |-> ReorderedPaths[3], rows |-> FixedCatalog[2].rows] >>

Granules == UNION { {GranuleNames[i][r] : r \in 1..Len(GranuleNames[i])} :
                    i \in 1..Len(GranuleNames) }

\* ds.dataset(path): the rows of the catalog file stored at path
DatasetRows(cat, path) ==
    LET i == CHOOSE j \in 1..Len(cat) : cat[j].inventory = path
    IN  cat[i].rows

(***************************************************************************)
(* InventoryProgress / InventoryTracking (common/granule_tracker.py).      *)
(* A dict is a sequence of [key, value] entries in insertion order.        *)
(***************************************************************************)
NoInventory == [inventory |-> <<>>, submitted_count |-> 0, total_count |-> 0]

\* InventoryProgress.identifier: inventory.split("/")[-1]
Identifier(p) == p.inventory[Len(p.inventory)]

\* a progress record that counts as complete only past its last row
CompleteOnlyPastEnd(p) == p.submitted_count > p.total_count

\* InventoryProgress.is_complete
ProgressIsComplete(p) == p.submitted_count = p.total_count

\* d[k] = v on an insertion-ordered dict
DictSet(d, k, v) ==
    IF \E i \in 1..Len(d) : d[i].key = k
    THEN [i \in 1..Len(d) |->
             IF d[i].key = k THEN [key |-> k, value |-> v] ELSE d[i]]
    ELSE Append(d, [key |-> k, value |-> v])

RECURSIVE DictOf(_, _)
\* {inventory.identifier: inventory for inventory in inventories}
DictOf(inventories, d) ==
    IF inventories = <<>> THEN d
    ELSE DictOf(Tail(inventories),
                DictSet(d, Identifier(Head(inventories)), Head(inventories)))

\* InventoryTracking.new
TrackingNew(inventories, etag) ==
    [inventories |-> DictOf(inventories, <<>>), etag |-> etag]

\* self.inventories.values()
Values(t) == [i \in 1..Len(t.inventories) |-> t.inventories[i].value]

\* InventoryTracking.to_ndjson: one JSON record per value, keys dropped
ToNdjson(t) == Values(t)

\* InventoryTracking.from_ndjson: records parsed, keys recomputed by new()
FromNdjson(ndjson, etag) == TrackingNew(ndjson, etag)

\* InventoryTracking.is_complete
TrackingIsComplete(t) ==
    \A i \in 1..Len(t.inventories) : ProgressIsComplete(t.inventories[i].value)

\* InventoryTracking.get_next_inventory: first incomplete value, or None
HasNextInventory(t) ==
    \E i \in 1..Len(t.inventories) : ~ProgressIsComplete(t.inventories[i].value)

\* a tracking that hands out the last incomplete value
GetLastInventory(t) ==
    IF HasNextInventory(t)
    THEN LET i == CHOOSE j \in 1..Len(t.inventories) :
                     /\ ~ProgressIsComplete(t.inventories[j].value)
                     /\ \A k \in (j + 1)..Len(t.inventories) :
                            ProgressIsComplete(t.inventories[k].value)
         IN  t.inventories[i].value
    ELSE NoInventory

GetNextInventory(t) ==
    IF HasNextInventory(t)
    THEN LET i == CHOOSE j \in 1..Len(t.inventories) :
                     /\ ~ProgressIsComplete(t.inventories[j].value)
                     /\ \A k \in 1..(j - 1) :
                            ProgressIsComplete(t.inventories[k].value)
         IN  t.inventories[i].value
    ELSE NoInventory

\* InventoryTracking.increment_progress
IncrementProgress(t, inventory, count) ==
    [t EXCEPT !.inventories =
        [i \in 1..Len(t.inventories) |->
            IF t.inventories[i].key = Identifier(inventory)
            THEN [t.inventories[i] EXCEPT
                     !.value.submitted_count = @ + count]
            ELSE t.inventories[i]]]

\* the cursor stored under an identifier
SubmittedCount(t, key) ==
    LET i == CHOOSE j \in 1..Len(t.inventories) : t.inventories[j].key = key
    IN  t.inventories[i].value.submitted_count

(***************************************************************************)
(* GranuleTrackerService.get_next_granule_ids                              *)
(***************************************************************************)
\* end_row = min(submitted_count + count, total_count)
EndRow(next, count) == Min(next.submitted_count + count, next.total_count)

\* list(range(submitted_count, end_row)): 0-based row offsets
NextRows(next, end_row) ==
    [i \in 1..(end_row - next.submitted_count) |-> next.submitted_count + i - 1]

\* scanner.take(next_rows) raises on an offset outside the table
TakeRaises(rows, next_rows) ==
    \E i \in 1..Len(next_rows) : next_rows[i] < 0 \/ next_rows[i] >= Len(rows)

\* scanner.take(next_rows)
Take(rows, next_rows) == [i \in 1..Len(next_rows) |-> rows[next_rows[i] + 1]]

IsCompleted(row) == row.status = "completed"

\* table.filter(status == "completed")["granule_id"].to_pylist()
CompletedGranuleIds(table) ==
    LET kept == SelectSeq(table, IsCompleted)
    IN  [i \in 1..Len(kept) |-> kept[i].granule_id]

\* the count handed to increment_progress
AdvanceByReturned(next, end_row, granule_ids) == Len(granule_ids)

Advance(next, end_row, granule_ids) == end_row - next.submitted_count

\* returns [tracking, granule_ids, raised]; tracking is mutated in place
GetNextGranuleIds(cat, tracking, count) ==
    IF ~HasNextInventory(tracking)
    THEN [tracking |-> tracking, granule_ids |-> <<>>, raised |-> FALSE]
    ELSE LET next     == GetNextInventory(tracking)
             end_row  == EndRow(next, count)
             rows     == NextRows(next, end_row)
             data     == DatasetRows(cat, next.inventory)
         IN  IF TakeRaises(data, rows)
             THEN [tracking |-> tracking, granule_ids |-> <<>>,
                   raised |-> TRUE]
             ELSE LET ids == CompletedGranuleIds(Take(data, rows))
                  IN  [tracking |->
                           IncrementProgress(tracking, next,
                                             Advance(next, end_row, ids)),
                       granule_ids |-> ids,
                       raised |-> FALSE]

(***************************************************************************)
(* The ledger object in the blob store.  S3 returns as ETag the digest of  *)
(* the stored body (single-part PUT, SSE-S3 bucket): equal bodies have     *)
(* equal ETags and different bodies have different ETags.                  *)
(***************************************************************************)
ETag(body) == <<"md5", body>>

\* GranuleTrackerService._create_inventory_progress
CreateInventoryProgress(cat, i) ==
    [inventory |-> cat[i].inventory,
     submitted_count |-> 0,
     total_count |-> Len(cat[i].rows)]

\* the tracking create_tracking builds from the listed inventories
CreatedTracking(cat) ==
    LET t == TrackingNew([i \in 1..Len(cat) |-> CreateInventoryProgress(cat, i)],
                         "")
    IN  [t EXCEPT !.etag = ETag(ToNdjson(t))]

(***************************************************************************)
(* Blob store primitives used on the ledger object.                        *)
(***************************************************************************)
NoObject == [exists |-> FALSE, body |-> <<>>]

\* put_object(IfMatch=etag) is accepted by the store
IfMatchIgnored(obj, etag) == obj.exists

IfMatchHolds(obj, etag) == obj.exists /\ ETag(obj.body) = etag

\* a store that accepts every put_object(IfNoneMatch="*")
IfNoneMatchIgnored(obj) == TRUE

\* put_object(IfNoneMatch="*") is accepted by the store
IfNoneMatchHolds(obj) == ~obj.exists

(***************************************************************************)
(* AwsBatchClient.active_jobs_below_threshold, on the number of jobs in    *)
(* an active status.                                                       *)
(***************************************************************************)
\* a capacity check that always reports capacity
AlwaysBelowThreshold(job_count, threshold) == TRUE

\* return job_count < threshold
ActiveJobsBelowThreshold(job_count, threshold) == job_count < threshold

\* ACTIVE_JOB_STATUSES in the order the for loop visits them; the set of
\* job distributions below is closed under permutation of the statuses
ActiveJobStatuses ==
    <<"SUBMITTED", "PENDING", "RUNNABLE", "STARTING", "RUNNING">>

\* every status of a job of the backend
JobStatuses ==
    {ActiveJobStatuses[i] : i \in 1..Len(ActiveJobStatuses)}
    \cup {"SUCCEEDED", "FAILED"}

RECURSIVE Paginate(_, _)
\* paginator.paginate(jobQueue, jobStatus): the sizes of the jobSummaryList
\* of the pages listing n jobs, page_size at most per page
Paginate(n, page_size) ==
    IF n <= page_size THEN <<n>>
    ELSE <<page_size>> \o Paginate(n - page_size, page_size)

\* an early exit that fires as soon as any job was listed
AnyJobListed(job_count, threshold) == job_count > 0

\* if job_count >= threshold: return False
ThresholdReached(job_count, threshold) == job_count >= threshold

RECURSIVE CountPages(_, _, _)
\* the inner for loop: [returned |-> early exit taken, job_count |-> count]
CountPages(pages, job_count, threshold) ==
    IF pages = <<>> THEN [returned |-> FALSE, job_count |-> job_count]
    ELSE LET counted == job_count + Head(pages)
         IN  IF ThresholdReached(counted, threshold)
             THEN [returned |-> TRUE, job_count |-> counted]
             ELSE CountPages(Tail(pages), counted, threshold)

RECURSIVE CountStatuses(_, _, _, _, _)
\* the outer for loop over the statuses still to visit
CountStatuses(statuses, jobs, page_size, job_count, threshold) ==
    IF statuses = <<>>
    THEN ActiveJobsBelowThreshold(job_count, threshold)
    ELSE LET r == CountPages(Paginate(jobs[Head(statuses)], page_size),
                             job_count, threshold)
         IN  IF r.returned THEN FALSE
             ELSE CountStatuses(Tail(statuses), jobs, page_size,
                                r.job_count, threshold)

\* AwsBatchClient.active_jobs_below_threshold over the listing of the queue
ListedJobsBelowThreshold(jobs, page_size, threshold) ==
    CountStatuses(ActiveJobStatuses, jobs, page_size, 0, threshold)

(***************************************************************************)
(* queue_feeder: the point of the handler where the ledger is committed.   *)
(* The for loop over granule_ids has ended when no id is left to submit.   *)
(***************************************************************************)
SubmitLoopDoneEarly(f) == TRUE

SubmitLoopDone(f) == f.granule_ids = <<>>

\* a feeder that commits the ledger in debug mode too
NeverSkipsUpdate(f) == FALSE

\* "if not debug:" guards update_tracking
SkipsUpdate(f) == f.debug

(***************************************************************************)
(* GranuleProcessingEvent (common/models.py).                              *)
(***************************************************************************)
NoBucket == "None"

GranuleProcessingEvent(granule_id, attempt) ==
    [granule_id |-> granule_id, attempt |-> attempt, debug_bucket |-> NoBucket]

\* a resubmission that keeps the attempt number
SameAttempt(event) == event

\* GranuleProcessingEvent.new_attempt
NewAttempt(event) == [event EXCEPT !.attempt = @ + 1]

\* GranuleProcessingEvent.to_envvar / to_environment: DEBUG_BUCKET only if set
ToEnvironment(event) ==
    IF event.debug_bucket = NoBucket
    THEN [GRANULE_ID |-> event.granule_id, ATTEMPT |-> event.attempt]
    ELSE [GRANULE_ID |-> event.granule_id, ATTEMPT |-> event.attempt,
          DEBUG_BUCKET |-> event.debug_bucket]

\* GranuleProcessingEvent.from_envvar
FromEnvvar(env) ==
    [granule_id |-> env.GRANULE_ID, attempt |-> env.ATTEMPT,
     debug_bucket |-> IF "DEBUG_BUCKET" \in DOMAIN env
                      THEN env.DEBUG_BUCKET ELSE NoBucket]

\* GranuleProcessingEvent.to_json, and the requeuer's
\* GranuleProcessingEvent(**json.loads(body))
ToJson(event) == event

FromJson(body) == body

(***************************************************************************)
(* GranuleId (common/models.py).  A dotted string is the sequence of its   *)
(* "." separated parts; the timestamp part "%Y%jT%H%M%S" is the record of  *)
(* the digit sequences before and after the "T".                           *)
(***************************************************************************)
RECURSIVE Digits(_, _)
\* n printed in decimal, zero padded to width digits
Digits(n, width) ==
    IF width = 0 THEN <<>>
    ELSE Append(Digits(n \div 10, width - 1), n % 10)

RECURSIVE Number(_)
\* int() of a digit sequence
Number(digits) ==
    IF digits = <<>> THEN 0
    ELSE 10 * Number(SubSeq(digits, 1, Len(digits) - 1)) + digits[Len(digits)]

IsLeap(year) == year % 4 = 0 /\ (year % 100 # 0 \/ year % 400 = 0)

DaysInYear(year) == IF IsLeap(year) THEN 366 ELSE 365

DaysInMonth(year, month) ==
    IF month = 2 /\ IsLeap(year) THEN 29
    ELSE <<31, 28, 31, 30, 31, 30, 31, 31, 30, 31, 30, 31>>[month]

RECURSIVE DaysBeforeMonth(_, _)
DaysBeforeMonth(year, month) ==
    IF month = 1 THEN 0
    ELSE DaysBeforeMonth(year, month - 1) + DaysInMonth(year, month - 1)

\* date.fromordinal(julian - 1 + date(year, 1, 1).toordinal()): a day past
\* the end of the year is a day of the next year
FromJulian(year, julian) ==
    LET y == IF julian > DaysInYear(year) THEN year + 1 ELSE year
        j == IF julian > DaysInYear(year) THEN julian - DaysInYear(year)
             ELSE julian
        m == CHOOSE month \in 1..12 :
                 /\ DaysBeforeMonth(y, month) < j
                 /\ j <= DaysBeforeMonth(y, month) + DaysInMonth(y, month)
    IN  [year |-> y, month |-> m, day |-> j - DaysBeforeMonth(y, m)]

\* a formatter that prints the day of the month for %j
DayOfMonth(year, month, day) == day

\* %j of strftime: the day of the year
DayOfYear(year, month, day) == DaysBeforeMonth(year, month) + day

\* datetime.strptime(text, HLS_GRANULE_ID_STRFTIME): ValueError when a field
\* is outside the range of its directive or of datetime
Strptime(text) ==
    LET year   == Number(SubSeq(text.date, 1, 4))
        julian == Number(SubSeq(text.date, 5, 7))
        hour   == Number(SubSeq(text.time, 1, 2))
        minute == Number(SubSeq(text.time, 3, 4))
        second == Number(SubSeq(text.time, 5, 6))
    IN  IF \/ julian < 1 \/ julian > 366
           \/ hour > 23 \/ minute > 59 \/ second > 59
        THEN [raised |-> TRUE]
        ELSE [raised |-> FALSE,
              value |-> [year |-> FromJulian(year, julian).year,
                         month |-> FromJulian(year, julian).month,
                         day |-> FromJulian(year, julian).day,
                         hour |-> hour, minute |-> minute,
                         second |-> second]]

\* begin_datetime.strftime(HLS_GRANULE_ID_STRFTIME)
Strftime(d) ==
    [date |-> Digits(d.year, 4) \o Digits(DayOfYear(d.year, d.month, d.day), 3),
     time |-> Digits(d.hour, 2) \o Digits(d.minute, 2) \o Digits(d.second, 2)]

\* GranuleId.from_str: six parts, the fourth a timestamp
GranuleIdFromStr(granule_id) ==
    IF Len(granule_id) # 6 THEN [raised |-> TRUE]
    ELSE IF Strptime(granule_id[4]).raised THEN [raised |-> TRUE]
    ELSE [raised |-> FALSE,
          value |-> [product |-> granule_id[1],
                     platform |-> granule_id[2],
                     tile |-> granule_id[3],
                     begin_datetime |-> Strptime(granule_id[4]).value,
                     version |-> <<granule_id[5], granule_id[6]>>]]

\* GranuleId.__str__
GranuleIdStr(g) ==
    <<g.product, g.platform, g.tile, Strftime(g.begin_datetime)>> \o g.version

(***************************************************************************)
(* JobDetails (common/aws_batch.py) over a job detail payload              *)
(* [container |-> [environment, exitCode (optional)], attempts |-> n].     *)
(***************************************************************************)
SuccessExitCode == 0
ErrorExitCode == 1

\* the payload of a job that ended with an exit code
DetailWithExitCode(event, code, attempts) ==
    [container |-> [environment |-> ToEnvironment(event), exitCode |-> code],
     attempts |-> attempts]

\* the payload of a job ended by the infrastructure (no exit code)
DetailWithoutExitCode(event, attempts) ==
    [container |-> [environment |-> ToEnvironment(event)],
     attempts |-> attempts]

\* JobDetails.attempts
Attempts(detail) == detail.attempts

\* JobDetails.exit_code is not None
HasExitCode(detail) == "exitCode" \in DOMAIN detail.container

\* a classification by the presence of the exit code alone
OutcomeByPresence(detail) ==
    IF HasExitCode(detail) THEN "SUCCESS" ELSE "FAILURE_RETRYABLE"

\* JobDetails.get_job_outcome
GetJobOutcome(detail) ==
    IF HasExitCode(detail) /\ detail.container.exitCode = 0
    THEN "SUCCESS"
    ELSE IF ~HasExitCode(detail)
    THEN "FAILURE_RETRYABLE"
    ELSE "FAILURE_NONRETRYABLE"

\* JobDetails.get_granule_event: only GRANULE_ID and ATTEMPT are read
GetGranuleEvent(detail) ==
    FromEnvvar([GRANULE_ID |-> detail.container.environment.GRANULE_ID,
                ATTEMPT |-> detail.container.environment.ATTEMPT])

\* JobOutcome.processing_outcome
ProcessingOutcome(job_outcome) ==
    IF job_outcome = "SUCCESS" THEN "SUCCESS" ELSE "FAILURE"

(***************************************************************************)
(* GranuleLoggerService (common/granule_logger.py).  The store maps an     *)
(* object key to its body; a key is <<outcome prefix, granule id,          *)
(* attempt>> (platform and acquisition date are functions of the id).      *)
(***************************************************************************)
\* GranuleLoggerService.outcome_to_prefix
OutcomeToPrefix(outcome) == IF outcome = "SUCCESS" THEN "success" ELSE "failure"

\* GranuleLoggerService._path_for_event_outcome
PathForEventOutcome(event, outcome) ==
    <<OutcomeToPrefix(outcome), event.granule_id, event.attempt>>

\* GranuleLoggerService._path_to_event_outcome: the event of a log path
PathToEvent(path) == GranuleProcessingEvent(path[2], path[3])

\* S3Path.write_text / copy_to(overwrite=True): the key holds body afterwards
S3Put(store, key, body) ==
    {o \in store : o.key # key} \cup {[key |-> key, body |-> body]}

\* S3Path.delete
S3Delete(store, key) == {o \in store : o.key # key}

\* S3Path.read_text of an existing key
S3Body(store, key) == (CHOOSE o \in store : o.key = key).body

S3Exists(store, key) == \E o \in store : o.key = key

\* a listing of every log of the outcome's partition, whatever the granule
ListWholePartition(store, granule_id, outcome) ==
    {o.key : o \in {x \in store : x.key[1] = OutcomeToPrefix(outcome)}}

\* GranuleLoggerService._list_logs_for_outcome: keys under the granule's
\* prefix of one outcome
ListLogsForOutcome(store, granule_id, outcome) ==
    {o.key : o \in {x \in store : /\ x.key[1] = OutcomeToPrefix(outcome)
                                  /\ x.key[2] = granule_id}}

RECURSIVE CleanEach(_, _)
\* the loop of _clean_failures over the listed failure paths: copy to the
\* success path, then delete the failure path
CleanEach(store, paths) ==
    IF paths = {} THEN store
    ELSE LET failure_path == CHOOSE k \in paths :
                                 \A other \in paths : k[3] <= other[3]
             success_path == PathForEventOutcome(PathToEvent(failure_path),
                                                 "SUCCESS")
             copied == S3Put(store, success_path, S3Body(store, failure_path))
         IN  CleanEach(S3Delete(copied, failure_path),
                       paths \ {failure_path})

\* a logger that writes nothing
PutNothing(store, detail) == store

\* a logger that leaves the failure logs where they are
KeepFailures(store, granule_id) == store

\* GranuleLoggerService._clean_failures
CleanFailures(store, granule_id) ==
    CleanEach(store, ListLogsForOutcome(store, granule_id, "FAILURE"))

\* GranuleEventJobLog of a job detail
EventLog(detail) ==
    [granule_id |-> GetGranuleEvent(detail).granule_id,
     attempt |-> GetGranuleEvent(detail).attempt,
     outcome |-> GetJobOutcome(detail),
     job_info |-> detail]

\* a lookup that reads the SUCCESS partition only
SuccessOnly == <<"SUCCESS">>

\* "for outcome in ProcessingOutcome": the members in definition order
ProcessingOutcomes == <<"SUCCESS", "FAILURE">>

NotFound == [found |-> FALSE]

RECURSIVE ReadFirst(_, _, _)
\* the loop of get_event_details over the outcomes still to try: the
\* job_info of the first log that exists, else NoSuchEventAttemptExists
ReadFirst(store, event, outcomes) ==
    IF outcomes = <<>> THEN NotFound
    ELSE LET path == PathForEventOutcome(event, Head(outcomes))
         IN  IF S3Exists(store, path)
             THEN [found |-> TRUE, detail |-> S3Body(store, path).job_info]
             ELSE ReadFirst(store, event, Tail(outcomes))

\* GranuleLoggerService.get_event_details
GetEventDetails(store, event) == ReadFirst(store, event, ProcessingOutcomes)

\* GranuleLoggerService.put_event_details
PutEventDetails(store, detail) ==
    LET event   == GetGranuleEvent(detail)
        outcome == GetJobOutcome(detail)
        s3path  == PathForEventOutcome(event, ProcessingOutcome(outcome))
        written == S3Put(store, s3path, EventLog(detail))
    IN  IF ProcessingOutcome(outcome) = "SUCCESS"
        THEN CleanFailures(written, event.granule_id)
        ELSE written

(***************************************************************************)
(* job_monitor: the queue a job outcome is routed to.                      *)
(***************************************************************************)
\* a router that sends every failure to the retry queue
RouteAllToRetry(outcome) ==
    IF outcome = "SUCCESS" THEN "none" ELSE "retry"

\* the if / elif of job_monitor
Route(outcome) ==
    IF outcome = "FAILURE_RETRYABLE" THEN "retry"
    ELSE IF outcome = "FAILURE_NONRETRYABLE" THEN "dlq"
    ELSE "none"

\* granules whose jobs the monitor and the requeuer handle in the model
RetryGranules == {"A", "B"}

\* job state-change payloads of a job: exit code absent, 0 or non-zero, and
\* the internal attempt count the backend reports
JobDetailsOf(event) ==
    {DetailWithoutExitCode(event, k) : k \in 1..PROCESSING_JOB_RETRY_ATTEMPTS}
    \cup {DetailWithExitCode(event, c, k) :
              c \in {SuccessExitCode, ErrorExitCode},
              k \in 1..PROCESSING_JOB_RETRY_ATTEMPTS}

Feeders == {"f1", "f2"}

\* the overlapping monitor invocations that call put_event_details
Putters == {"m1", "m2"}

VARIABLES
    catalog,     \* the inventory files
    gnTracking,  \* the InventoryTracking object handed to get_next_granule_ids
    gnLast,      \* the last get_next_granule_ids call: arguments and result
    gnCalls,     \* number of calls made
    ledger,      \* the progress.ndjson object in the processing bucket
    feeder,      \* per feeder invocation slot: position and locals
    submitted,   \* attempt-0 jobs submitted per granule, by output mode
    activeJobs,  \* jobs of the batch queue in an active status
    invocations, \* feeder invocations started
    hist,        \* history: every body stored in the ledger, in write order
    commits,     \* history: successful update_tracking calls
    conflicts,   \* history: update_tracking calls that raised a conflict
    running,     \* jobs of the batch queue that have not ended: events
    submittedJobs, \* history: every event the requeuer submitted as a job
    retryQueue,  \* messages on the retry queue, oldest first
    dlq,         \* messages on the failure dead-letter queue
    logs,        \* the attempt log objects in the processing bucket
    monLast,     \* the last job_monitor invocation: event and messages sent
    logLast,     \* the last put_event_details call: payload and store before
    puts,        \* number of put_event_details calls made
    getLast,     \* the last get_event_details call: event and result
    requeuer,    \* the job_requeuer invocation: position, batch and locals
    putters,     \* per overlapping put_event_details call: position and locals
    pure         \* the last call of a function of its arguments only

gnVars == <<gnTracking, gnLast, gnCalls>>
feederVars == <<ledger, feeder, submitted, activeJobs, invocations, hist,
                commits, conflicts>>
retryVars == <<running, submittedJobs, retryQueue, dlq, monLast, requeuer>>
logVars == <<logs, logLast, puts, getLast, putters>>
vars == <<catalog, pure, gnVars, feederVars, retryVars, logVars>>

NoCall == [called |-> FALSE]

NoTracking == [inventories |-> <<>>, etag |-> ""]

IdleFeeder ==
    [pc |-> "idle", tracking |-> NoTracking, granule_ids |-> <<>>,
     count |-> 0, debug |-> FALSE, readAt |-> 0, result |-> "none"]

GetNextUnused ==
    /\ gnTracking = NoTracking
    /\ gnLast = NoCall
    /\ gnCalls = 0

FeederUnused ==
    /\ ledger = NoObject
    /\ feeder = [p \in Feeders |-> IdleFeeder]
    /\ submitted = [g \in Granules |-> [normal |-> 0, debug |-> 0]]
    /\ activeJobs = 0
    /\ invocations = 0
    /\ hist = <<>>
    /\ commits = {}
    /\ conflicts = {}

NoMonitor == [handled |-> FALSE, raised |-> FALSE]

NoPut == [called |-> FALSE]

NoGet == [called |-> FALSE]

NoPure == [fn |-> "none"]

IdlePutter == [pc |-> "idle", listed |-> <<>>]

IdleRequeuer ==
    [pc |-> "idle", records |-> <<>>, jobs |-> <<>>, failed |-> {},
     result |-> "none"]

RetryUnused ==
    /\ running = {}
    /\ submittedJobs = {}
    /\ retryQueue = <<>>
    /\ dlq = <<>>
    /\ monLast = NoMonitor
    /\ requeuer = IdleRequeuer

LogUnused ==
    /\ logs = {}
    /\ logLast = NoPut
    /\ puts = 0
    /\ getLast = NoGet
    /\ putters = [m \in Putters |-> IdlePutter]

PureUnused == pure = NoPure

(***************************************************************************)
(* SpecGetNext: sequences of get_next_granule_ids calls on one tracking    *)
(* value, no external writes in between.                                   *)
(***************************************************************************)
InitGetNext ==
    /\ catalog \in Catalogs
    /\ gnTracking = CreatedTracking(catalog)
    /\ gnLast = NoCall
    /\ gnCalls = 0
    /\ FeederUnused
    /\ RetryUnused
    /\ LogUnused
    /\ PureUnused

GetNextCall(n) ==
    /\ gnCalls < MaxCalls
    /\ LET r == GetNextGranuleIds(catalog, gnTracking, n)
       IN  /\ gnTracking' = r.tracking
           /\ gnLast' = [called |-> TRUE, count |-> n, before |-> gnTracking,
                         granule_ids |-> r.granule_ids, raised |-> r.raised]
    /\ gnCalls' = gnCalls + 1
    /\ UNCHANGED <<catalog, pure, feederVars, retryVars, logVars>>

NextGetNext == \E n \in SubmitCounts : GetNextCall(n)

SpecGetNext == InitGetNext /\ [][NextGetNext]_vars

(***************************************************************************)
(* SpecFeeder: overlapping queue_feeder invocations against one ledger     *)
(* object and one batch queue.  Every call to the blob store or to the     *)
(* compute backend is one step.                                            *)
(***************************************************************************)
InitFeeder ==
    /\ catalog = FixedCatalog
    /\ GetNextUnused
    /\ FeederUnused
    /\ RetryUnused
    /\ LogUnused
    /\ PureUnused

\* the invocation ends: the slot is free for the next invocation
Finished(f, result) ==
    [f EXCEPT !.pc = "idle", !.granule_ids = <<>>, !.result = result]

\* a feeder that reads the ledger again after a conflict
RetryOnConflict(f) == [f EXCEPT !.pc = "get_tracking"]

\* the conflict raised by update_tracking is not caught: the invocation fails
OnConflict(f) == Finished(f, "conflict")

\* tracker.get_next_granule_ids(tracking, granule_submit_count), then the
\* submission loop starts; a raise ends the invocation
AfterTracking(f, tracking, readAt) ==
    LET r == GetNextGranuleIds(catalog, tracking, f.count)
    IN  IF r.raised
        THEN Finished([f EXCEPT !.tracking = tracking, !.readAt = readAt],
                      "raised")
        ELSE [f EXCEPT !.pc = "submit", !.tracking = r.tracking,
                       !.granule_ids = r.granule_ids, !.readAt = readAt]

\* handler entry and batch.active_jobs_below_threshold(max_active_jobs)
FeederStart(p, n, debug) ==
    /\ feeder[p].pc = "idle"
    /\ invocations < MaxInvocations
    /\ invocations' = invocations + 1
    /\ LET f == [IdleFeeder EXCEPT !.count = n, !.debug = debug]
       IN  feeder' = [feeder EXCEPT ![p] =
               IF ActiveJobsBelowThreshold(activeJobs, MaxActiveJobs)
               THEN [f EXCEPT !.pc = "get_tracking"]
               ELSE Finished(f, "empty")]
    /\ UNCHANGED <<retryVars, logVars, catalog, pure, gnVars, ledger,
                   submitted, activeJobs, hist, commits, conflicts>>

\* tracker.get_tracking()
FeederGetTracking(p) ==
    /\ feeder[p].pc = "get_tracking"
    /\ feeder' = [feeder EXCEPT ![p] =
           IF ledger.exists
           THEN AfterTracking(@, FromNdjson(ledger.body, ETag(ledger.body)),
                              Len(hist))
           ELSE [@ EXCEPT !.pc = "create_tracking"]]
    /\ UNCHANGED <<retryVars, logVars, catalog, pure, gnVars, ledger,
                   submitted, activeJobs, invocations, hist, commits,
                   conflicts>>

\* tracker.create_tracking(), after InventoryTrackingNotFoundError
FeederCreateTracking(p) ==
    /\ feeder[p].pc = "create_tracking"
    /\ LET tracking == CreatedTracking(catalog)
       IN  IF IfNoneMatchHolds(ledger)
           THEN /\ ledger' = [exists |-> TRUE, body |-> ToNdjson(tracking)]
                /\ hist' = Append(hist, ToNdjson(tracking))
                /\ feeder' = [feeder EXCEPT ![p] =
                       AfterTracking(@, tracking, Len(hist) + 1)]
           ELSE /\ feeder' = [feeder EXCEPT ![p] = Finished(@, "raised")]
                /\ UNCHANGED <<ledger, hist>>
    /\ UNCHANGED <<retryVars, logVars, catalog, pure, gnVars, submitted,
                   activeJobs, invocations, commits, conflicts>>

\* batch.submit_job(event=GranuleProcessingEvent(granule_id, attempt=0), ...)
FeederSubmit(p) ==
    /\ feeder[p].pc = "submit"
    /\ feeder[p].granule_ids # <<>>
    /\ LET g == Head(feeder[p].granule_ids)
       IN  submitted' = [submitted EXCEPT ![g] =
               IF feeder[p].debug THEN [@ EXCEPT !.debug = @ + 1]
                                  ELSE [@ EXCEPT !.normal = @ + 1]]
    /\ activeJobs' = activeJobs + 1
    /\ feeder' = [feeder EXCEPT ![p].granule_ids = Tail(@)]
    /\ UNCHANGED <<retryVars, logVars, catalog, pure, gnVars, ledger,
                   invocations, hist, commits, conflicts>>

\* a feeder that commits the advanced cursor when a submission raises
FeederSubmitFailsCommits(p) ==
    /\ feeder[p].pc = "submit"
    /\ feeder[p].granule_ids # <<>>
    /\ ledger' = [exists |-> TRUE, body |-> ToNdjson(feeder[p].tracking)]
    /\ hist' = Append(hist, ToNdjson(feeder[p].tracking))
    /\ feeder' = [feeder EXCEPT ![p] = Finished(@, "raised")]
    /\ UNCHANGED <<retryVars, logVars, catalog, pure, gnVars, submitted,
                   activeJobs, invocations, commits, conflicts>>

\* batch.submit_job raises: the invocation fails before the commit
FeederSubmitFails(p) ==
    /\ feeder[p].pc = "submit"
    /\ feeder[p].granule_ids # <<>>
    /\ feeder' = [feeder EXCEPT ![p] = Finished(@, "raised")]
    /\ UNCHANGED <<retryVars, logVars, catalog, pure, gnVars, ledger,
                   submitted, activeJobs, invocations, hist, commits,
                   conflicts>>

\* if not debug: tracker.update_tracking(updated_tracking); return
FeederUpdate(p) ==
    /\ feeder[p].pc = "submit"
    /\ SubmitLoopDone(feeder[p])
    /\ LET f == feeder[p]
       IN  IF SkipsUpdate(f)
           THEN /\ feeder' = [feeder EXCEPT ![p] = Finished(@, "returned")]
                /\ UNCHANGED <<ledger, hist, commits, conflicts>>
           ELSE IF IfMatchHolds(ledger, f.tracking.etag)
           THEN /\ ledger' = [exists |-> TRUE, body |-> ToNdjson(f.tracking)]
                /\ hist' = Append(hist, ToNdjson(f.tracking))
                /\ commits' = commits \cup
                      {[from |-> f.readAt, at |-> Len(hist) + 1]}
                /\ feeder' = [feeder EXCEPT ![p] = Finished(@, "returned")]
                /\ UNCHANGED conflicts
           ELSE /\ conflicts' = conflicts \cup
                      {[from |-> f.readAt, at |-> Len(hist)]}
                /\ feeder' = [feeder EXCEPT ![p] = OnConflict(@)]
                /\ UNCHANGED <<ledger, hist, commits>>
    /\ UNCHANGED <<retryVars, logVars, catalog, pure, gnVars, submitted,
                   activeJobs, invocations>>

\* a job of the queue reaches a terminal status
JobEnds ==
    /\ activeJobs > 0
    /\ activeJobs' = activeJobs - 1
    /\ UNCHANGED <<retryVars, logVars, catalog, pure, gnVars, ledger, feeder,
                   submitted, invocations, hist, commits, conflicts>>

NextFeeder ==
    \/ \E p \in Feeders, n \in SubmitCounts, debug \in BOOLEAN :
           FeederStart(p, n, debug)
    \/ \E p \in Feeders : FeederGetTracking(p)
    \/ \E p \in Feeders : FeederCreateTracking(p)
    \/ \E p \in Feeders : FeederSubmit(p)
    \/ \E p \in Feeders : FeederSubmitFails(p)
    \/ \E p \in Feeders : FeederUpdate(p)
    \/ JobEnds

SpecFeeder == InitFeeder /\ [][NextFeeder]_vars

(***************************************************************************)
(* SpecResume: queue_feeder invocations that run one at a time (the        *)
(* function's reserved concurrency is 1), on a ledger that is absent or    *)
(* that earlier invocations left at any point of the catalog.  submitted   *)
(* counts the jobs submitted since the initial state.                      *)
(***************************************************************************)
ResumeCatalogs == {FixedCatalog, CollidingCatalog, ReorderedCatalog}

\* the bodies of the ledger of a catalog worked through in file order with
\* counts >= 0: a file's cursor has moved only if the files before it are done
LedgerBodies(cat) ==
    LET created == ToNdjson(CreatedTracking(cat))
    IN  { [i \in 1..Len(created) |->
              [created[i] EXCEPT !.submitted_count = c[i]]] :
          c \in { d \in [1..Len(created) -> 0..MaxRows] :
                    \A i \in 1..Len(created) :
                        /\ d[i] <= created[i].total_count
                        /\ d[i] > 0 =>
                               \A k \in 1..(i - 1) :
                                   d[k] = created[k].total_count } }

InitResume ==
    /\ catalog \in ResumeCatalogs
    /\ GetNextUnused
    /\ ledger \in {NoObject} \cup
                  {[exists |-> TRUE, body |-> b] : b \in LedgerBodies(catalog)}
    /\ hist = IF ledger.exists THEN <<ledger.body>> ELSE <<>>
    /\ feeder = [p \in Feeders |-> IdleFeeder]
    /\ submitted = [g \in Granules |-> [normal |-> 0, debug |-> 0]]
    /\ activeJobs = 0
    /\ invocations = 0
    /\ commits = {}
    /\ conflicts = {}
    /\ RetryUnused
    /\ LogUnused
    /\ PureUnused

\* the slot of the single running invocation
Resumed == "f1"

NextResume ==
    \/ \E n \in SubmitCounts, debug \in BOOLEAN : FeederStart(Resumed, n, debug)
    \/ FeederGetTracking(Resumed)
    \/ FeederCreateTracking(Resumed)
    \/ FeederSubmit(Resumed)
    \/ FeederSubmitFails(Resumed)
    \/ FeederUpdate(Resumed)
    \/ JobEnds

SpecResume == InitResume /\ [][NextResume]_vars

(***************************************************************************)
(* SpecRetry: the job monitor and the job requeuer.  Every granule of      *)
(* RetryGranules starts with its attempt-0 job on the batch queue; a job   *)
(* ends with one of the state-change payloads of JobDetailsOf, which the   *)
(* monitor handles; the requeuer receives batches of the retry queue.      *)
(***************************************************************************)
InitRetry ==
    /\ catalog = FixedCatalog
    /\ GetNextUnused
    /\ FeederUnused
    /\ running = {GranuleProcessingEvent(g, 0) : g \in RetryGranules}
    /\ submittedJobs = {}
    /\ retryQueue = <<>>
    /\ dlq = <<>>
    /\ monLast = NoMonitor
    /\ requeuer = IdleRequeuer
    /\ LogUnused
    /\ PureUnused

\* job_monitor on the state-change event of job j with payload detail
JobMonitor(j, detail) ==
    /\ j \in running
    /\ detail \in JobDetailsOf(j)
    /\ LET granule_event == GetGranuleEvent(detail)
           outcome       == GetJobOutcome(detail)
           message       == ToJson(NewAttempt(granule_event))
       IN  /\ logs' = PutEventDetails(logs, detail)
           /\ logLast' = [called |-> TRUE, detail |-> detail, before |-> logs]
           /\ retryQueue' = IF Route(outcome) = "retry"
                            THEN Append(retryQueue, message) ELSE retryQueue
           /\ dlq' = IF Route(outcome) = "dlq"
                     THEN Append(dlq, message) ELSE dlq
           /\ monLast' = [handled |-> TRUE, raised |-> FALSE,
                          detail |-> detail,
                          retryBefore |-> retryQueue, dlqBefore |-> dlq]
    /\ running' = running \ {j}
    /\ UNCHANGED <<catalog, pure, gnVars, feederVars, submittedJobs, puts,
                   getLast, putters, requeuer>>

\* job_monitor whose put_event_details raises before anything is written:
\* the exception leaves the handler before either send_message
JobMonitorPutFails(j, detail) ==
    /\ j \in running
    /\ detail \in JobDetailsOf(j)
    /\ monLast' = [handled |-> FALSE, raised |-> TRUE, detail |-> detail,
                   retryBefore |-> retryQueue, dlqBefore |-> dlq]
    /\ running' = running \ {j}
    /\ UNCHANGED <<catalog, pure, gnVars, feederVars, submittedJobs,
                   retryQueue, dlq, logVars, requeuer>>

\* a requeuer that consumes its batch without submitting a job
JobRequeuerDrops(k) ==
    /\ k \in 1..Len(retryQueue)
    /\ retryQueue' = SubSeq(retryQueue, k + 1, Len(retryQueue))
    /\ monLast' = NoMonitor
    /\ UNCHANGED <<catalog, pure, gnVars, feederVars, running, submittedJobs,
                   dlq, logVars, requeuer>>

\* job_requeuer on a batch of the k oldest messages of the retry queue
JobRequeuer(k) ==
    /\ k \in 1..Len(retryQueue)
    /\ \A i \in 1..k : FromJson(retryQueue[i]).attempt < MaxAttempt
    /\ LET jobs == {NewAttempt(FromJson(retryQueue[i])) : i \in 1..k}
       IN  /\ running' = running \cup jobs
           /\ submittedJobs' = submittedJobs \cup jobs
    /\ retryQueue' = SubSeq(retryQueue, k + 1, Len(retryQueue))
    /\ monLast' = NoMonitor
    /\ UNCHANGED <<catalog, pure, gnVars, feederVars, dlq, logVars, requeuer>>

NextRetry ==
    \/ \E j \in running : \E detail \in JobDetailsOf(j) : JobMonitor(j, detail)
    \/ \E j \in running : \E detail \in JobDetailsOf(j) :
           JobMonitorPutFails(j, detail)
    \/ \E k \in 1..Len(retryQueue) : JobRequeuer(k)

SpecRetry == InitRetry /\ [][NextRetry]_vars

(***************************************************************************)
(* SpecRetryLive: the monitor and the requeuer under fair delivery of the  *)
(* retry queue: the event source mapping keeps polling, so a non-empty     *)
(* queue eventually has a batch handed to job_requeuer.  A job whose next  *)
(* attempt would pass MaxAttempt does not fail retryably.                  *)
(***************************************************************************)
\* job_monitor on a state change whose message stays within the bound
JobMonitorWithinBound(j, detail) ==
    /\ Route(GetJobOutcome(detail)) = "retry" =>
           NewAttempt(j).attempt < MaxAttempt
    /\ JobMonitor(j, detail)

NextRetryLive ==
    \/ \E j \in running : \E detail \in JobDetailsOf(j) :
           JobMonitorWithinBound(j, detail)
    \/ \E j \in running : \E detail \in JobDetailsOf(j) :
           JobMonitorPutFails(j, detail)
    \/ \E k \in 1..Len(retryQueue) : JobRequeuer(k)

\* the event source mapping of the retry queue
FairDelivery == WF_vars(\E k \in 1..Len(retryQueue) : JobRequeuer(k))

SpecRetryLive == InitRetry /\ [][NextRetryLive]_vars /\ FairDelivery

(***************************************************************************)
(* SpecRequeuer: one job_requeuer invocation at a time on batches of the   *)
(* retry queue, one step per message.  The queue starts with messages as   *)
(* the monitor writes them and bodies of the form shown in the handler's   *)
(* docstring; an invocation that raises fails its whole batch, which the   *)
(* queue (max_receive_count=1) moves to the dead-letter queue.             *)
(***************************************************************************)
\* the message bodies on the retry queue
QueuedBodies ==
    {ToJson(GranuleProcessingEvent(g, a)) :
         g \in RetryGranules, a \in 1..MaxQueuedAttempt}
    \cup {[GRANULE_ID |-> g, ATTEMPT |-> 0] : g \in RetryGranules}

RECURSIVE SeqsUpTo(_, _)
\* the sequences over S of length 0..n
SeqsUpTo(S, n) ==
    IF n = 0 THEN {<<>>}
    ELSE LET shorter == SeqsUpTo(S, n - 1)
         IN  shorter \cup {Append(q, x) : q \in shorter, x \in S}

\* GranuleProcessingEvent(**json.loads(record["body"])) returns: the keys are
\* fields of the dataclass and granule_id is given
BodyLoads(body) ==
    /\ DOMAIN body \subseteq {"granule_id", "attempt", "debug_bucket"}
    /\ "granule_id" \in DOMAIN body

\* the exception leaves handler: the invocation fails and with it every
\* record of the batch
Raise(r) ==
    [r EXCEPT !.pc = "idle", !.result = "raised",
              !.failed = 1..Len(r.records)]

\* the records of the failed ones, in batch order
RECURSIVE FailedRecords(_, _)
FailedRecords(r, i) ==
    IF i > Len(r.records) THEN <<>>
    ELSE (IF i \in r.failed THEN <<r.records[i]>> ELSE <<>>)
         \o FailedRecords(r, i + 1)

InitRequeuer ==
    /\ catalog = FixedCatalog
    /\ GetNextUnused
    /\ FeederUnused
    /\ running = {}
    /\ submittedJobs = {}
    /\ retryQueue \in SeqsUpTo(QueuedBodies, MaxQueued) \ {<<>>}
    /\ dlq = <<>>
    /\ monLast = NoMonitor
    /\ requeuer = IdleRequeuer
    /\ LogUnused
    /\ PureUnused

\* the event source hands the k oldest messages to handler
RequeuerReceive(k) ==
    /\ requeuer.pc = "idle"
    /\ k \in 1..Len(retryQueue)
    /\ requeuer' = [IdleRequeuer EXCEPT !.pc = "loop",
                                        !.records = SubSeq(retryQueue, 1, k)]
    /\ retryQueue' = SubSeq(retryQueue, k + 1, Len(retryQueue))
    /\ UNCHANGED <<catalog, pure, gnVars, feederVars, running, submittedJobs,
                   dlq, monLast, logVars>>

\* one pass of "for record in event[Records]" whose submit_job returns
RequeuerSubmit ==
    /\ requeuer.pc = "loop"
    /\ Len(requeuer.jobs) < Len(requeuer.records)
    /\ LET body == requeuer.records[Len(requeuer.jobs) + 1]
       IN  /\ BodyLoads(body)
           /\ LET next_attempt == NewAttempt(FromJson(body))
              IN  /\ requeuer' = [requeuer EXCEPT
                                      !.jobs = Append(@, next_attempt)]
                  /\ running' = running \cup {next_attempt}
                  /\ submittedJobs' = submittedJobs \cup {next_attempt}
    /\ UNCHANGED <<catalog, pure, gnVars, feederVars, retryQueue, dlq,
                   monLast, logVars>>

\* one pass whose body does not load or whose submit_job raises
RequeuerRaises(submit_fails) ==
    /\ requeuer.pc = "loop"
    /\ Len(requeuer.jobs) < Len(requeuer.records)
    /\ ~BodyLoads(requeuer.records[Len(requeuer.jobs) + 1]) \/ submit_fails
    /\ LET r == Raise(requeuer)
       IN  /\ requeuer' = r
           /\ dlq' = dlq \o FailedRecords(r, 1)
    /\ UNCHANGED <<catalog, pure, gnVars, feederVars, running, submittedJobs,
                   retryQueue, monLast, logVars>>

\* "return jobs": the batch is deleted from the queue
RequeuerReturn ==
    /\ requeuer.pc = "loop"
    /\ Len(requeuer.jobs) = Len(requeuer.records)
    /\ requeuer' = [requeuer EXCEPT !.pc = "idle", !.result = "returned"]
    /\ UNCHANGED <<catalog, pure, gnVars, feederVars, running, submittedJobs,
                   retryQueue, dlq, monLast, logVars>>

NextRequeuer ==
    \/ \E k \in 1..Len(retryQueue) : RequeuerReceive(k)
    \/ RequeuerSubmit
    \/ \E submit_fails \in BOOLEAN : RequeuerRaises(submit_fails)
    \/ RequeuerReturn

SpecRequeuer == InitRequeuer /\ [][NextRequeuer]_vars

(***************************************************************************)
(* SpecLogger: sequences of put_event_details calls on one log store, for  *)
(* any granule, attempt number and outcome, in any order.                  *)
(***************************************************************************)
LoggedDetails ==
    UNION {{d \in JobDetailsOf(GranuleProcessingEvent(g, a)) :
                Attempts(d) = 1} :
           g \in RetryGranules, a \in 0..MaxLogAttempt}

InitLogger ==
    /\ catalog = FixedCatalog
    /\ GetNextUnused
    /\ FeederUnused
    /\ RetryUnused
    /\ LogUnused
    /\ PureUnused

PutEvent(detail) ==
    /\ puts < MaxPuts
    /\ puts' = puts + 1
    /\ logs' = PutEventDetails(logs, detail)
    /\ logLast' = [called |-> TRUE, detail |-> detail, before |-> logs]
    /\ getLast' = NoGet
    /\ UNCHANGED <<catalog, pure, gnVars, feederVars, retryVars, putters>>

\* the events get_event_details is asked for
LoggedEvents ==
    {GranuleProcessingEvent(g, a) : g \in RetryGranules, a \in 0..MaxLogAttempt}

GetEvent(event) ==
    /\ getLast' = [called |-> TRUE, event |-> event, before |-> logs,
                   result |-> GetEventDetails(logs, event)]
    /\ UNCHANGED <<catalog, pure, gnVars, feederVars, retryVars, logs,
                   logLast, puts, putters>>

NextLogger ==
    \/ \E detail \in LoggedDetails : PutEvent(detail)
    \/ \E event \in LoggedEvents : GetEvent(event)

SpecLogger == InitLogger /\ [][NextLogger]_vars

(***************************************************************************)
(* SpecPromote: overlapping put_event_details calls on one log store, one  *)
(* step per request to the blob store: write_text, the listing of          *)
(* _clean_failures, then copy_to and delete of each listed failure log.    *)
(***************************************************************************)
\* the payloads logged: per granule and attempt a job ended by the
\* infrastructure and a job that exited with 0
PutDetails ==
    UNION {{DetailWithoutExitCode(GranuleProcessingEvent(g, a), 1),
            DetailWithExitCode(GranuleProcessingEvent(g, a),
                               SuccessExitCode, 1)} :
           g \in RetryGranules, a \in 0..MaxPutAttempt}

\* the stores the calls start from: failure logs of attempt 0
StoresBefore ==
    {PutEventDetails(PutEventDetails({}, dA), dB) :
         dA \in {d \in PutDetails : GetGranuleEvent(d).granule_id = "A"
                                     /\ GetGranuleEvent(d).attempt = 0},
         dB \in {d \in PutDetails : GetGranuleEvent(d).granule_id = "B"
                                     /\ GetGranuleEvent(d).attempt = 0}}
    \cup {{}}

RECURSIVE SortedPaths(_)
\* the listed paths in attempt order
SortedPaths(paths) ==
    IF paths = {} THEN <<>>
    ELSE LET first == CHOOSE k \in paths : \A other \in paths : k[3] <= other[3]
         IN  <<first>> \o SortedPaths(paths \ {first})

InitPromote ==
    /\ catalog = FixedCatalog
    /\ GetNextUnused
    /\ FeederUnused
    /\ RetryUnused
    /\ logs \in StoresBefore
    /\ logLast = NoPut
    /\ puts = 0
    /\ getLast = NoGet
    /\ putters = [m \in Putters |-> IdlePutter]
    /\ PureUnused

\* put_event_details(details) is entered
PutStart(m, detail) ==
    /\ putters[m].pc = "idle"
    /\ putters' = [putters EXCEPT ![m] =
           [pc |-> "write", detail |-> detail, before |-> logs,
            listed |-> <<>>]]
    /\ UNCHANGED <<catalog, pure, gnVars, feederVars, retryVars, logs,
                   logLast, puts, getLast>>

\* s3path.write_text(event_log.to_json())
PutWrite(m) ==
    /\ putters[m].pc = "write"
    /\ LET detail  == putters[m].detail
           outcome == ProcessingOutcome(GetJobOutcome(detail))
           s3path  == PathForEventOutcome(GetGranuleEvent(detail), outcome)
       IN  /\ logs' = S3Put(logs, s3path, EventLog(detail))
           /\ putters' = [putters EXCEPT ![m].pc =
                  IF outcome = "SUCCESS" THEN "list" ELSE "done"]
    /\ UNCHANGED <<catalog, pure, gnVars, feederVars, retryVars, logLast,
                   puts, getLast>>

\* _clean_failures: _list_logs_for_outcome(granule_id, FAILURE)
PutList(m) ==
    /\ putters[m].pc = "list"
    /\ LET listed == SortedPaths(ListLogsForOutcome(
                         logs, GetGranuleEvent(putters[m].detail).granule_id,
                         "FAILURE"))
       IN  putters' = [putters EXCEPT
                          ![m].listed = listed,
                          ![m].pc = IF listed = <<>> THEN "done" ELSE "copy"]
    /\ UNCHANGED <<catalog, pure, gnVars, feederVars, retryVars, logs,
                   logLast, puts, getLast>>

\* a promotion that goes on to the delete without making the copy
PutCopySkipped(m) ==
    /\ putters[m].pc = "copy"
    /\ putters' = [putters EXCEPT ![m].pc = "delete"]
    /\ UNCHANGED <<catalog, pure, gnVars, feederVars, retryVars, logs, logLast,
                   puts, getLast>>

\* failure_path.copy_to(success_path, overwrite=True): the copy of a key
\* that is no longer in the store raises
PutCopy(m) ==
    /\ putters[m].pc = "copy"
    /\ LET failure_path == Head(putters[m].listed)
           success_path == PathForEventOutcome(PathToEvent(failure_path),
                                               "SUCCESS")
       IN  IF S3Exists(logs, failure_path)
           THEN /\ logs' = S3Put(logs, success_path,
                                 S3Body(logs, failure_path))
                /\ putters' = [putters EXCEPT ![m].pc = "delete"]
           ELSE /\ putters' = [putters EXCEPT ![m].pc = "raised"]
                /\ UNCHANGED logs
    /\ UNCHANGED <<catalog, pure, gnVars, feederVars, retryVars, logLast,
                   puts, getLast>>

\* failure_path.delete(), then the next listed path or the return
PutDelete(m) ==
    /\ putters[m].pc = "delete"
    /\ logs' = S3Delete(logs, Head(putters[m].listed))
    /\ putters' = [putters EXCEPT
           ![m].listed = Tail(@),
           ![m].pc = IF Tail(putters[m].listed) = <<>> THEN "done"
                     ELSE "copy"]
    /\ UNCHANGED <<catalog, pure, gnVars, feederVars, retryVars, logLast,
                   puts, getLast>>

NextPromote ==
    \/ \E m \in Putters, detail \in PutDetails : PutStart(m, detail)
    \/ \E m \in Putters : PutWrite(m)
    \/ \E m \in Putters : PutList(m)
    \/ \E m \in Putters : PutCopy(m)
    \/ \E m \in Putters : PutDelete(m)

SpecPromote == InitPromote /\ [][NextPromote]_vars

(***************************************************************************)
(* SpecPure: one call, per behaviour, of a function of its arguments only: *)
(* get_job_outcome with processing_outcome, on job detail payloads, or     *)
(* active_jobs_below_threshold on listings of the job queue.               *)
(***************************************************************************)
\* job detail payloads: no exit code or any exit code of 0..MaxExitCode
OutcomeDetails ==
    UNION {{DetailWithoutExitCode(GranuleProcessingEvent(g, a), k) :
                k \in 1..PROCESSING_JOB_RETRY_ATTEMPTS}
           \cup {DetailWithExitCode(GranuleProcessingEvent(g, a), c, k) :
                     c \in 0..MaxExitCode,
                     k \in 1..PROCESSING_JOB_RETRY_ATTEMPTS} :
           g \in RetryGranules, a \in 0..MaxLogAttempt}

\* the number of jobs of the queue in each status
JobDistributions == [JobStatuses -> 0..MaxStatusJobs]

Thresholds == (0 - 1)..MaxThreshold

InitPure ==
    /\ catalog = FixedCatalog
    /\ GetNextUnused
    /\ FeederUnused
    /\ RetryUnused
    /\ LogUnused
    /\ PureUnused

\* details.get_job_outcome() and its processing_outcome
Classify(detail) ==
    /\ pure' = [fn |-> "get_job_outcome", detail |-> detail,
                job_outcome |-> GetJobOutcome(detail),
                processing_outcome |->
                    ProcessingOutcome(GetJobOutcome(detail))]
    /\ UNCHANGED <<catalog, gnVars, feederVars, retryVars, logVars>>

\* batch.active_jobs_below_threshold(threshold)
CountActiveJobs(jobs, page_size, threshold) ==
    /\ pure' = [fn |-> "active_jobs_below_threshold", jobs |-> jobs,
                page_size |-> page_size, threshold |-> threshold,
                result |->
                    ListedJobsBelowThreshold(jobs, page_size, threshold)]
    /\ UNCHANGED <<catalog, gnVars, feederVars, retryVars, logVars>>

NextPure ==
    \/ /\ pure = NoPure
       /\ \E detail \in OutcomeDetails : Classify(detail)
    \/ /\ pure = NoPure
       /\ \E jobs \in JobDistributions, page_size \in 1..MaxPageSize,
             threshold \in Thresholds :
              CountActiveJobs(jobs, page_size, threshold)

SpecPure == InitPure /\ [][NextPure]_vars

(***************************************************************************)
(* SpecCodec: one call, per behaviour, of a conversion between a value     *)
(* and its external form.                                                  *)
(***************************************************************************)
RECURSIVE StrOf(_)
\* str(n) of a non-negative int: its decimal digits, no padding
StrOf(n) == IF n < 10 THEN <<n>> ELSE Append(StrOf(n \div 10), n % 10)

\* an int() that reads the last digit only
LastDigit(text) == text[Len(text)]

\* int(text) of a digit string
IntOf(text) == Number(text)

\* GranuleProcessingEvent.to_envvar: a dict of strings, as (name, value)
\* items in insertion order
ToEnvvar(event) ==
    << <<"GRANULE_ID", event.granule_id>>, <<"ATTEMPT", StrOf(event.attempt)>> >>
    \o (IF event.debug_bucket # NoBucket
        THEN << <<"DEBUG_BUCKET", event.debug_bucket>> >> ELSE <<>>)

\* GranuleProcessingEvent.to_environment: one name/value entry per item
ToEnvironmentEntries(event) ==
    [i \in 1..Len(ToEnvvar(event)) |->
        [name |-> ToEnvvar(event)[i][1], value |-> ToEnvvar(event)[i][2]]]

\* the dict comprehension of get_granule_event: the entries named GRANULE_ID
\* or ATTEMPT, a later entry of a name replacing an earlier one
FilteredEnv(environment) ==
    LET kept == {i \in 1..Len(environment) :
                    environment[i].name \in {"GRANULE_ID", "ATTEMPT"}}
        last(name) == CHOOSE i \in kept :
                          /\ environment[i].name = name
                          /\ \A k \in kept :
                                 environment[k].name = name => k <= i
    IN  [name \in {environment[i].name : i \in kept} |->
            environment[last(name)].value]

\* GranuleProcessingEvent.from_envvar on a dict of strings: KeyError when
\* GRANULE_ID or ATTEMPT is missing
FromEnvvarStrings(env) ==
    IF {"GRANULE_ID", "ATTEMPT"} \subseteq DOMAIN env
    THEN [raised |-> FALSE,
          value |-> [granule_id |-> env["GRANULE_ID"],
                     attempt |-> IntOf(env["ATTEMPT"]),
                     debug_bucket |-> NoBucket]]
    ELSE [raised |-> TRUE]

\* JobDetails.get_granule_event on detail["container"]["environment"]
GranuleEventOfEntries(environment) == FromEnvvarStrings(FilteredEnv(environment))

\* the events written to a job's environment at submission
SubmittedEvents ==
    {[granule_id |-> g, attempt |-> a, debug_bucket |-> b] :
         g \in RetryGranules, a \in 0..MaxEventAttempt,
         b \in {NoBucket, "debug-bucket"}}

\* environment entries of the job definition that the job detail also lists
DefinitionEntries == <<[name |-> "OUTPUT_BUCKET", value |-> "output-bucket"]>>

\* the environment without the entries of the names in dropped
Without(environment, dropped) ==
    SelectSeq(environment, LAMBDA entry : entry.name \notin dropped)

\* times of day of the identifier strings: hours, minutes, seconds
TimesOfDay ==
    {<<0, 0, 0>>, <<21, 49, 1>>, <<23, 59, 59>>, <<23, 59, 60>>, <<24, 0, 0>>}

\* the timestamp parts: every year, three-digit day number and time above
Timestamps ==
    {[date |-> Digits(year, 4) \o Digits(julian, 3),
      time |-> Digits(t[1], 2) \o Digits(t[2], 2) \o Digits(t[3], 2)] :
         year \in FirstYear..LastYear, julian \in 0..MaxJulian,
         t \in TimesOfDay}

\* identifier strings handed to GranuleId.from_str: well-formed ones for
\* both platforms and ones without the minor version part
GranuleIdStrings ==
    {<<"HLS", platform, "T01GBH", ts, "v2", "0">> :
         platform \in {"L30", "S30"}, ts \in Timestamps}
    \cup {<<"HLS", "S30", "T01GBH", ts, "v2">> : ts \in Timestamps}

InitCodec ==
    /\ catalog = FixedCatalog
    /\ GetNextUnused
    /\ FeederUnused
    /\ RetryUnused
    /\ LogUnused
    /\ PureUnused

\* str(GranuleId.from_str(granule_id))
RoundTripGranuleId(granule_id) ==
    /\ pure' = LET parsed == GranuleIdFromStr(granule_id)
               IN  IF parsed.raised
                   THEN [fn |-> "granule_id", s |-> granule_id,
                         raised |-> TRUE]
                   ELSE [fn |-> "granule_id", s |-> granule_id,
                         raised |-> FALSE,
                         out |-> GranuleIdStr(parsed.value)]
    /\ UNCHANGED <<catalog, gnVars, feederVars, retryVars, logVars>>

\* get_granule_event on the detail of a job submitted with
\* event.to_environment(), the entries named in dropped missing from it
EventOfSubmittedJob(event, dropped) ==
    /\ pure' = LET environment ==
                       Without(DefinitionEntries \o ToEnvironmentEntries(event),
                               dropped)
                   got == GranuleEventOfEntries(environment)
               IN  IF got.raised
                   THEN [fn |-> "get_granule_event", event |-> event,
                         dropped |-> dropped, raised |-> TRUE]
                   ELSE [fn |-> "get_granule_event", event |-> event,
                         dropped |-> dropped, raised |-> FALSE,
                         out |-> got.value]
    /\ UNCHANGED <<catalog, gnVars, feederVars, retryVars, logVars>>

NextCodec ==
    \/ /\ pure = NoPure
       /\ \E granule_id \in GranuleIdStrings : RoundTripGranuleId(granule_id)
    \/ /\ pure = NoPure
       /\ \E event \in SubmittedEvents,
             dropped \in SUBSET {"GRANULE_ID", "ATTEMPT"} :
              EventOfSubmittedJob(event, dropped)

SpecCodec == InitCodec /\ [][NextCodec]_vars

(***************************************************************************)
(* Helpers of the properties.                                              *)
(***************************************************************************)
\* a granule identifier string of the fixed format that names an instant:
\* six parts, a day of its year, a time of the 24-hour clock
ValidGranuleIdString(granule_id) ==
    /\ Len(granule_id) = 6
    /\ LET ts     == granule_id[4]
           year   == Number(SubSeq(ts.date, 1, 4))
           julian == Number(SubSeq(ts.date, 5, 7))
       IN  /\ julian >= 1
           /\ julian <= (IF year % 4 = 0 /\ (year % 100 # 0 \/ year % 400 = 0)
                         THEN 366 ELSE 365)
           /\ Number(SubSeq(ts.time, 1, 2)) <= 23
           /\ Number(SubSeq(ts.time, 3, 4)) <= 59
           /\ Number(SubSeq(ts.time, 5, 6)) <= 59

RECURSIVE CompletedBetween(_, _, _)
\* granule ids of the completed rows at 0-based offsets lo..hi-1, in row order
CompletedBetween(rows, lo, hi) ==
    IF lo >= hi THEN <<>>
    ELSE (IF rows[lo + 1].status = "completed"
          THEN <<rows[lo + 1].granule_id>> ELSE <<>>)
         \o CompletedBetween(rows, lo + 1, hi)

\* two commits with nothing stored between them
Consecutive(c1, c2) == c2.at = c1.at + 1

\* attempt numbers of the logs of granule g under one outcome prefix
AttemptsLogged(store, prefix, g) ==
    {o.key[3] : o \in {x \in store : x.key[1] = prefix /\ x.key[2] = g}}

\* the catalog files a ledger body has an entry for, in entry order
BodyFiles(body) == [i \in 1..Len(body) |-> body[i].inventory]

\* the catalog files _list_inventories discovered, in discovery order
DiscoveredFiles == [i \in 1..Len(catalog) |-> catalog[i].inventory]

\* the position of a catalog file in the discovery order
DiscoveryIndex(path) ==
    CHOOSE i \in 1..Len(catalog) : catalog[i].inventory = path

\* the elements of a sequence
Range(q) == {q[i] : i \in 1..Len(q)}

\* every file of a ledger body has submitted_count == total_count
BodyComplete(body) ==
    \A i \in 1..Len(body) : body[i].submitted_count = body[i].total_count

\* the granule a put_event_details call logs for
PutterGranule(putter) == GetGranuleEvent(putter.detail).granule_id

\* the logs of one granule
LogsOf(store, g) == {o \in store : o.key[2] = g}

\* the files of a ledger body whose cursor is strictly inside the file
PartlySubmitted(body) ==
    {i \in 1..Len(body) : /\ 0 < body[i].submitted_count
                          /\ body[i].submitted_count < body[i].total_count}

\* the files of a ledger body are consumed in order
ConsumedInOrder(body) ==
    /\ \A i \in 1..Len(body), k \in 1..Len(body) :
           (i < k /\ ~ProgressIsComplete(body[i])) =>
               body[k].submitted_count = 0
    /\ Cardinality(PartlySubmitted(body)) <= 1

\* the last monitor invocation handled a payload of this outcome
MonitorHandled(outcome) ==
    monLast.handled /\ GetJobOutcome(monLast.detail) = outcome

\* the message the spec routes for the last monitored event
NextAttemptMessage ==
    [granule_id |-> monLast.detail.container.environment.GRANULE_ID,
     attempt |-> monLast.detail.container.environment.ATTEMPT + 1,
     debug_bucket |-> NoBucket]

\* what the last monitor invocation appended to each queue
SentToRetry == SubSeq(retryQueue, Len(monLast.retryBefore) + 1, Len(retryQueue))

SentToDlq == SubSeq(dlq, Len(monLast.dlqBefore) + 1, Len(dlq))

(***************************************************************************)
(* C1 (as stated): of two update_tracking calls that carry the token read  *)
(* from the same ledger state, exactly one succeeds: no two successive     *)
(* replacements were made with the token of the same read, a conflict is   *)
(* raised only after another write, and the ledger is as the last          *)
(* successful writer wrote it.                                             *)
(***************************************************************************)
C1_ExactlyOneUpdateSucceeds ==
    /\ \A c1 \in commits, c2 \in commits :
           ~(c1.from = c2.from /\ Consecutive(c1, c2))
    /\ \A f \in conflicts : f.at > f.from
    /\ ledger.exists => ledger.body = hist[Len(hist)]

(***************************************************************************)
(* C1 (amended): of two update_tracking calls that carry the token read    *)
(* from the same ledger state, the second succeeds only if the first       *)
(* stored a body identical to the one read (the token is the digest of     *)
(* the body, so it is then unchanged); a call raises a conflict exactly    *)
(* when the stored body differs from the one it read, and a conflict       *)
(* leaves the ledger as the last successful writer wrote it.               *)
(***************************************************************************)
C1_OneUpdateSucceedsUnlessBodyUnchanged ==
    /\ \A c1 \in commits, c2 \in commits :
           (c1.from = c2.from /\ Consecutive(c1, c2))
               => hist[c1.at] = hist[c1.from]
    /\ \A c \in commits : hist[c.at - 1] = hist[c.from]
    /\ \A f \in conflicts : hist[f.at] # hist[f.from]
    /\ ledger.exists => ledger.body = hist[Len(hist)]

\* C1 witness: two calls read the same state, one replaced the ledger and
\* the other then raised a conflict against the winner's write
C1_Witness ==
    \E c \in commits, f \in conflicts :
        /\ c.from = f.from
        /\ f.at = c.at
        /\ ledger.body = hist[c.at]

(***************************************************************************)
(* C2: across non-debug feeder invocations the granule of each catalog     *)
(* row is submitted as an attempt-0 job at most once.                      *)
(***************************************************************************)
C2_GranuleSubmittedAtMostOnce ==
    \A g \in Granules : submitted[g].normal <= 1

(***************************************************************************)
(* C3: no granule is silently dropped: every completed row below a file's  *)
(* submitted_count in the stored ledger has had an attempt-0 job submitted *)
(* by a non-debug invocation.                                              *)
(***************************************************************************)
C3_CommittedRowsWereSubmitted ==
    ledger.exists =>
        \A i \in 1..Len(ledger.body) :
            LET rows == DatasetRows(catalog, ledger.body[i].inventory)
            IN  \A off \in 0..(ledger.body[i].submitted_count - 1) :
                    rows[off + 1].status = "completed"
                        => submitted[rows[off + 1].granule_id].normal >= 1

\* C3 witness: the stored cursor of the first file passed a completed row
\* (submitted) and a queued row (never submitted)
C3_Witness ==
    /\ ledger.exists
    /\ ledger.body[1].submitted_count = Len(catalog[1].rows)
    /\ submitted["A"].normal >= 1
    /\ submitted["B"].normal = 0
    /\ submitted["B"].debug = 0
    /\ submitted["C"].normal >= 1

(***************************************************************************)
(* C4: over a sequence of get_next_granule_ids calls on one tracking       *)
(* value, each submitted_count is non-decreasing from call to call and     *)
(* stays within 0..total_count.                                            *)
(***************************************************************************)
C4_CursorMonotoneAndInRange ==
    gnLast.called =>
        \A i \in 1..Len(gnTracking.inventories) :
            LET after  == gnTracking.inventories[i].value
                before == gnLast.before.inventories[i].value
            IN  /\ before.submitted_count <= after.submitted_count
                /\ 0 <= after.submitted_count
                /\ after.submitted_count <= after.total_count

(***************************************************************************)
(* C5: the stored ledger never suffers a lost update: every successful     *)
(* replacement was computed from the body that immediately precedes it in  *)
(* the store, and each file's stored submitted_count never decreases.      *)
(***************************************************************************)
C5_NoLostUpdate ==
    /\ \A c \in commits : hist[c.from] = hist[c.at - 1]
    /\ \A i \in 1..Len(hist), j \in 1..Len(hist) :
           i <= j =>
               \A k \in 1..Len(hist[i]) :
                   hist[i][k].submitted_count <= hist[j][k].submitted_count

(***************************************************************************)
(* C6: a FAILURE_RETRYABLE event whose internal attempt count is below the *)
(* configured internal retry budget produces no queue message; at or above *)
(* the budget it produces exactly one retry-queue message with             *)
(* attempt = original + 1, and nothing on the dead-letter queue.           *)
(***************************************************************************)
C6_RetryableRoutedByBudget ==
    MonitorHandled("FAILURE_RETRYABLE") =>
        /\ SentToDlq = <<>>
        /\ IF Attempts(monLast.detail) < PROCESSING_JOB_RETRY_ATTEMPTS
           THEN SentToRetry = <<>>
           ELSE SentToRetry = <<NextAttemptMessage>>

(***************************************************************************)
(* C7: of a monitor invocation that returns: a FAILURE_NONRETRYABLE event  *)
(* produces exactly one dead-letter-queue                                  *)
(* message with attempt = original + 1 and no retry-queue message; a       *)
(* SUCCESS event produces no message on either queue; no event puts a      *)
(* message on both queues.                                                 *)
(***************************************************************************)
C7_NonRetryableToDlqSuccessToNone ==
    monLast.handled =>
        /\ retryQueue = monLast.retryBefore \o SentToRetry
        /\ dlq = monLast.dlqBefore \o SentToDlq
        /\ MonitorHandled("FAILURE_NONRETRYABLE") =>
               SentToDlq = <<NextAttemptMessage>> /\ SentToRetry = <<>>
        /\ MonitorHandled("SUCCESS") =>
               SentToDlq = <<>> /\ SentToRetry = <<>>
        /\ ~(SentToDlq # <<>> /\ SentToRetry # <<>>)

C7_Witness ==
    /\ MonitorHandled("FAILURE_NONRETRYABLE")
    /\ monLast.detail.container.environment.ATTEMPT = 2
    /\ dlq # <<>>
    /\ dlq[Len(dlq)].attempt = 3

(***************************************************************************)
(* C8: the retry loop is bounded: no job the system runs for a granule     *)
(* carries an attempt number above the configured maximum                  *)
(* (JOB_RETRY_MAX_ATTEMPTS), so resubmission stops.                        *)
(***************************************************************************)
C8_AttemptsNeverExceedMaximum ==
    \A j \in running \cup submittedJobs : j.attempt <= JOB_RETRY_MAX_ATTEMPTS

(***************************************************************************)
(* C9: after put_event_details logs a SUCCESS for attempt n of granule g,  *)
(* the FAILURE partition holds no log of g and the SUCCESS partition holds *)
(* a log for every attempt of g logged before, plus attempt n; the logs of *)
(* other granules are untouched.                                           *)
(***************************************************************************)
C9_SuccessPromotesFailures ==
    (logLast.called /\ GetJobOutcome(logLast.detail) = "SUCCESS") =>
        LET g == logLast.detail.container.environment.GRANULE_ID
            n == logLast.detail.container.environment.ATTEMPT
        IN  /\ AttemptsLogged(logs, "failure", g) = {}
            /\ AttemptsLogged(logs, "success", g) =
                   AttemptsLogged(logLast.before, "failure", g)
                   \cup AttemptsLogged(logLast.before, "success", g)
                   \cup {n}
            /\ {o \in logs : o.key[2] # g} =
                   {o \in logLast.before : o.key[2] # g}

C9_Witness ==
    /\ logLast.called
    /\ GetJobOutcome(logLast.detail) = "SUCCESS"
    /\ Cardinality(AttemptsLogged(logLast.before, "failure", "A")) = 2
    /\ AttemptsLogged(logLast.before, "success", "A") = {}
    /\ logLast.detail.container.environment.GRANULE_ID = "A"
    /\ AttemptsLogged(logs, "failure", "A") = {}
    /\ Cardinality(AttemptsLogged(logs, "success", "A")) = 3

C11_CompleteLedgerStaysComplete ==
    /\ \A i \in 1..Len(hist) :
           BodyComplete(hist[i]) <=>
               TrackingIsComplete(FromNdjson(hist[i], ETag(hist[i])))
    /\ \A i \in 1..Len(hist), j \in 1..Len(hist) :
           (i <= j /\ BodyComplete(hist[i])) => hist[j] = hist[i]
    /\ \A p \in Feeders :
           (/\ feeder[p].pc = "submit"
            /\ BodyComplete(hist[feeder[p].readAt])) =>
               /\ feeder[p].granule_ids = <<>>
               /\ ToNdjson(feeder[p].tracking) = hist[feeder[p].readAt]

\* C11 witness: a second invocation has replaced a complete ledger, found
\* complete at the start, without submitting any job
C11_Witness ==
    /\ Len(hist) = 3
    /\ BodyComplete(hist[1])
    /\ ledger.body = hist[1]
    /\ \A g \in Granules : submitted[g].normal = 0 /\ submitted[g].debug = 0
    /\ feeder[Resumed].result = "returned"


(***************************************************************************)
(* C12: get_job_outcome is a function of the exit code alone: exit code 0  *)
(* gives SUCCESS, an absent exit code FAILURE_RETRYABLE, any other exit    *)
(* code FAILURE_NONRETRYABLE; processing_outcome maps SUCCESS to SUCCESS   *)
(* and both failure outcomes to FAILURE.                                   *)
(***************************************************************************)
C12_OutcomeClassification ==
    pure.fn = "get_job_outcome" =>
        LET container == pure.detail.container
        IN  /\ pure.job_outcome =
                   (IF "exitCode" \notin DOMAIN container
                    THEN "FAILURE_RETRYABLE"
                    ELSE IF container.exitCode = 0
                    THEN "SUCCESS"
                    ELSE "FAILURE_NONRETRYABLE")
            /\ pure.processing_outcome =
                   (IF pure.job_outcome = "SUCCESS"
                    THEN "SUCCESS" ELSE "FAILURE")

\* C12 witness: a payload with exit code 2 was classified non-retryable
C12_Witness ==
    /\ pure.fn = "get_job_outcome"
    /\ "exitCode" \in DOMAIN pure.detail.container
    /\ pure.detail.container.exitCode = 2
    /\ pure.job_outcome = "FAILURE_NONRETRYABLE"
    /\ pure.processing_outcome = "FAILURE"


(***************************************************************************)
(* C15: active_jobs_below_threshold(threshold) is true exactly when the    *)
(* number of jobs of the queue in the statuses SUBMITTED, PENDING,         *)
(* RUNNABLE, STARTING and RUNNING is strictly less than threshold, for     *)
(* every threshold, distribution of jobs over statuses and page size.      *)
(***************************************************************************)
C15_BelowThresholdIffFewerActiveJobs ==
    pure.fn = "active_jobs_below_threshold" =>
        (pure.result <=>
            pure.jobs["SUBMITTED"] + pure.jobs["PENDING"]
            + pure.jobs["RUNNABLE"] + pure.jobs["STARTING"]
            + pure.jobs["RUNNING"] < pure.threshold)

\* C15 witness: the early exit was taken on the second page of the first
\* status, with jobs of later statuses never listed
C15_Witness ==
    /\ pure.fn = "active_jobs_below_threshold"
    /\ pure.jobs["SUBMITTED"] = 2
    /\ pure.jobs["RUNNING"] = 2
    /\ pure.jobs["FAILED"] = 1
    /\ pure.page_size = 1
    /\ pure.threshold = 2
    /\ ~pure.result


(***************************************************************************)
(* C13: when the queue has no capacity (the active jobs have reached       *)
(* max_active_jobs), a feeder invocation ends at once with the empty       *)
(* result: it holds no tracking data, and the ledger, its history and the  *)
(* jobs of the backend are as before.                                      *)
(***************************************************************************)
C13_NoCapacityIsNoOp ==
    [][\A p \in Feeders :
          (/\ feeder[p].pc = "idle"
           /\ feeder'[p] # feeder[p]
           /\ activeJobs >= MaxActiveJobs) =>
              /\ feeder'[p].pc = "idle"
              /\ feeder'[p].result = "empty"
              /\ feeder'[p].tracking = NoTracking
              /\ ledger' = ledger
              /\ hist' = hist
              /\ submitted' = submitted
              /\ activeJobs' = activeJobs]_vars

\* C13 witness: an invocation returned the empty result on a full queue
C13_Witness ==
    \E p \in Feeders :
        /\ feeder[p].pc = "idle"
        /\ feeder[p].result = "empty"
        /\ activeJobs >= MaxActiveJobs
        /\ ledger.exists

(***************************************************************************)
(* C14: a debug invocation submits its batch and returns the tracking with *)
(* the advanced cursor, but never replaces the ledger: each of its steps   *)
(* leaves the stored ledger as it is, except the creation of an absent     *)
(* ledger with every cursor at 0.                                          *)
(***************************************************************************)
C14_DebugNeverReplacesLedger ==
    [][\A p \in Feeders :
          (/\ feeder[p].pc # "idle"
           /\ feeder[p].debug
           /\ feeder'[p] # feeder[p]) =>
              /\ commits' = commits
              /\ \/ ledger' = ledger
                 \/ /\ feeder[p].pc = "create_tracking"
                    /\ ~ledger.exists
                    /\ ledger'.exists
                    /\ \A i \in 1..Len(ledger'.body) :
                           ledger'.body[i].submitted_count = 0
              /\ (feeder'[p].pc = "idle" /\ feeder'[p].result = "returned") =>
                    /\ feeder[p].granule_ids = <<>>
                    /\ ToNdjson(feeder'[p].tracking) =
                           ToNdjson(GetNextGranuleIds(
                               catalog,
                               FromNdjson(hist[feeder[p].readAt], ""),
                               feeder[p].count).tracking)]_vars

\* C14 witness: a debug invocation returned a cursor of 2 for the first
\* file after submitting granule A, and the stored cursor is still 0
C14_Witness ==
    \E p \in Feeders :
        /\ feeder[p].pc = "idle"
        /\ feeder[p].debug
        /\ feeder[p].result = "returned"
        /\ submitted["A"].debug = 1
        /\ submitted["A"].normal = 0
        /\ ledger.exists
        /\ ledger.body[1].submitted_count = 0
        /\ ToNdjson(feeder[p].tracking)[1].submitted_count = 2


(***************************************************************************)
(* C16: create_tracking writes the ledger only if no ledger object exists: *)
(* on an existing ledger the create raises and the ledger and its cursors  *)
(* stay as they are; a create that succeeds is the first write ever made,  *)
(* so of two racing initializers at most one succeeds.                     *)
(***************************************************************************)
C16_CreateNeverOverwrites ==
    [][\A p \in Feeders :
          (feeder[p].pc = "create_tracking" /\ feeder'[p] # feeder[p]) =>
              IF ledger.exists
              THEN /\ ledger' = ledger
                   /\ hist' = hist
                   /\ feeder'[p].pc = "idle"
                   /\ feeder'[p].result = "raised"
              ELSE /\ ledger'.exists
                   /\ hist = <<>>
                   /\ hist' = <<ledger'.body>>]_vars

\* C16 witness: an initializer lost the race: its create raised on a ledger
\* whose cursor the winner had already advanced
C16_Witness ==
    \E p \in Feeders :
        /\ feeder[p].pc = "idle"
        /\ feeder[p].result = "raised"
        /\ feeder[p].tracking = NoTracking
        /\ ledger.exists
        /\ ledger.body[1].submitted_count > 0

(***************************************************************************)
(* C17: a conflict on the conditional replace is surfaced, not retried:    *)
(* when the stored ledger does not carry the token of the tracking to      *)
(* write, the one update_tracking call of the invocation raises, nothing   *)
(* is stored, and the invocation ends failed with the tracking it held.    *)
(***************************************************************************)
C17_ConflictEndsInvocation ==
    [][\A p \in Feeders :
          (/\ feeder[p].pc = "submit"
           /\ feeder[p].granule_ids = <<>>
           /\ ~feeder[p].debug
           /\ feeder'[p] # feeder[p]
           /\ ~(ledger.exists
                /\ ETag(ledger.body) = feeder[p].tracking.etag)) =>
              /\ ledger' = ledger
              /\ hist' = hist
              /\ commits' = commits
              /\ conflicts' # conflicts
              /\ feeder'[p].pc = "idle"
              /\ feeder'[p].result = "conflict"
              /\ feeder'[p].tracking = feeder[p].tracking]_vars

\* C17 witness: an invocation ended with a conflict after another one had
\* replaced the ledger it read
C17_Witness ==
    \E p \in Feeders, f \in conflicts :
        /\ feeder[p].pc = "idle"
        /\ feeder[p].result = "conflict"
        /\ feeder[p].readAt = f.from
        /\ f.at > f.from
        /\ ledger.body = hist[f.at]

(***************************************************************************)
(* C18: get_tracking on an absent ledger raises not-found and stores       *)
(* nothing; the feeder then creates a ledger with one entry, cursor 0 and  *)
(* the file's row count, for every discovered catalog file, and the token  *)
(* the create returned is the one get_tracking reads back from the store.  *)
(***************************************************************************)
C18_NotFoundThenCreate ==
    [][\A p \in Feeders :
          /\ (/\ feeder[p].pc = "get_tracking"
              /\ ~ledger.exists
              /\ feeder'[p] # feeder[p]) =>
                 /\ ledger' = ledger
                 /\ hist' = hist
                 /\ feeder'[p].pc = "create_tracking"
          /\ (/\ feeder[p].pc = "create_tracking"
              /\ ~ledger.exists
              /\ feeder'[p] # feeder[p]) =>
                 /\ ledger'.exists
                 /\ Len(ledger'.body) = Len(catalog)
                 /\ \A i \in 1..Len(catalog) :
                        \E k \in 1..Len(ledger'.body) :
                            ledger'.body[k] =
                                [inventory |-> catalog[i].inventory,
                                 submitted_count |-> 0,
                                 total_count |-> Len(catalog[i].rows)]
                 /\ feeder'[p].tracking.etag =
                        FromNdjson(ledger'.body, ETag(ledger'.body)).etag]_vars


(***************************************************************************)
(* C19: right after put_event_details(d) returns, get_event_details for    *)
(* the granule and attempt of d returns job details equal to d, whatever   *)
(* the outcome of d and the logs already in the store.                     *)
(***************************************************************************)
C19_GetReturnsWhatWasPut ==
    (/\ getLast.called
     /\ logLast.called
     /\ getLast.event = GetGranuleEvent(logLast.detail)) =>
        /\ getLast.result.found
        /\ getLast.result.detail = logLast.detail

(***************************************************************************)
(* C20: get_event_details of a (granule, attempt) with no log in either    *)
(* outcome partition raises NoSuchEventAttemptExists; it returns details   *)
(* whenever a log of the attempt is in at least one partition; the log     *)
(* store is left as it was.                                                *)
(***************************************************************************)
C20_NotFoundIffNeverLogged ==
    getLast.called =>
        /\ getLast.result.found <=>
               \E o \in getLast.before :
                   /\ o.key[2] = getLast.event.granule_id
                   /\ o.key[3] = getLast.event.attempt
        /\ logs = getLast.before

\* C20 witness: the lookup of attempt 1 of granule A raised not-found while
\* attempts 0 and 2 of A, one per partition, were in the store
C20_Witness ==
    /\ getLast.called
    /\ getLast.event = GranuleProcessingEvent("A", 1)
    /\ ~getLast.result.found
    /\ AttemptsLogged(logs, "failure", "A") = {0}
    /\ AttemptsLogged(logs, "success", "A") = {2}


(***************************************************************************)
(* C21: for a batch of retry-queue messages the requeuer submits exactly   *)
(* one job per message, in message order, each for the message's granule   *)
(* id with attempt = message attempt + 1, and returns one job handle per   *)
(* message.                                                                *)
(***************************************************************************)
C21_OneJobPerMessageInOrder ==
    /\ Len(requeuer.jobs) <= Len(requeuer.records)
    /\ \A i \in 1..Len(requeuer.jobs) :
           /\ requeuer.jobs[i].granule_id = requeuer.records[i].granule_id
           /\ requeuer.jobs[i].attempt = requeuer.records[i].attempt + 1
           /\ requeuer.jobs[i] \in submittedJobs
    /\ requeuer.result = "returned" =>
           Len(requeuer.jobs) = Len(requeuer.records)

\* C21 witness: a batch of three messages, two of them for the same granule
\* and attempt, was resubmitted and the invocation returned three handles
C21_Witness ==
    /\ requeuer.result = "returned"
    /\ requeuer.records = <<GranuleProcessingEvent("A", 1),
                            GranuleProcessingEvent("B", 2),
                            GranuleProcessingEvent("A", 1)>>
    /\ Len(requeuer.jobs) = 3

(***************************************************************************)
(* C22: when the requeuer fails on one message of a batch (bad body or     *)
(* failed submission) it reports exactly the failed messages as failed:    *)
(* the messages of the batch whose jobs were submitted are not reported,   *)
(* so they are neither redelivered nor dead-lettered.                      *)
(***************************************************************************)
C22_OnlyFailedMessagesReported ==
    requeuer.result = "raised" =>
        /\ requeuer.failed \cap 1..Len(requeuer.jobs) = {}
        /\ Len(requeuer.jobs) + 1 \in requeuer.failed


(***************************************************************************)
(* C23: the monitor logs before it routes: whenever a message derived from *)
(* attempt n of granule g (the message carries n + 1) is on the retry      *)
(* queue or the dead-letter queue, an attempt log for (g, n) is in the     *)
(* store; a monitor invocation whose log write failed sent no message.     *)
(***************************************************************************)
C23_LoggedBeforeRouted ==
    /\ \A q \in {retryQueue, dlq} : \A i \in 1..Len(q) :
           \E o \in logs : /\ o.key[2] = FromJson(q[i]).granule_id
                           /\ o.key[3] = FromJson(q[i]).attempt - 1
    /\ monLast.raised =>
           /\ SentToRetry = <<>>
           /\ SentToDlq = <<>>

\* C23 witness: the dead-letter queue holds the message of a logged attempt
\* and the last monitor invocation, for a retryable failure, failed to write
\* its log and left the retry queue empty
C23_Witness ==
    /\ monLast.raised
    /\ GetJobOutcome(monLast.detail) = "FAILURE_RETRYABLE"
    /\ retryQueue = <<>>
    /\ dlq # <<>>
    /\ logs # {}


(***************************************************************************)
(* C24: the keys of a newly created ledger are the catalog files           *)
(* discovered at creation, one entry per discovered file, also when two    *)
(* files share a base name under different prefixes; no later feeder step  *)
(* (get, update, serialization round trip) adds, removes or renames a key. *)
(***************************************************************************)
C24_KeysAreDiscoveredFiles ==
    [][/\ (~ledger.exists /\ ledger'.exists) =>
              /\ Range(BodyFiles(ledger'.body)) = Range(DiscoveredFiles)
              /\ Len(ledger'.body) = Len(catalog)
       /\ ledger.exists =>
              /\ ledger'.exists
              /\ Range(BodyFiles(ledger'.body)) = Range(BodyFiles(ledger.body))
              /\ Len(ledger'.body) = Len(ledger.body)
       /\ \A p \in Feeders :
              feeder'[p].pc = "submit" =>
                  Range(BodyFiles(Values(feeder'[p].tracking))) =
                      Range(BodyFiles(ledger'.body))]_vars


(***************************************************************************)
(* C25: get_next_inventory returns the first incomplete entry in the order *)
(* the catalog files were discovered at creation, or nothing when all are  *)
(* complete; every write and every read of the ledger keeps that order.    *)
(* Checked on every body the ledger object has held.                       *)
(***************************************************************************)
C25_FirstIncompleteInDiscoveryOrder ==
    \A k \in 1..Len(hist) :
        LET body == hist[k]
            t    == FromNdjson(body, ETag(body))
            next == GetNextInventory(t)
        IN  /\ BodyComplete(body) => next = NoInventory
            /\ ~BodyComplete(body) =>
                   /\ next \in Range(body)
                   /\ ~ProgressIsComplete(next)
                   /\ \A e \in Range(body) :
                          ~ProgressIsComplete(e) =>
                              DiscoveryIndex(next.inventory) <=
                                  DiscoveryIndex(e.inventory)
            /\ BodyFiles(Values(t)) = BodyFiles(body)
            /\ BodyFiles(body) = BodyFiles(hist[1])


(***************************************************************************)
(* C26: for every valid granule identifier string s, formatting the parsed *)
(* identifier gives s back: str(GranuleId.from_str(s)) == s.               *)
(***************************************************************************)
C26_GranuleIdRoundTrip ==
    (pure.fn = "granule_id" /\ ValidGranuleIdString(pure.s)) =>
        /\ ~pure.raised
        /\ pure.out = pure.s

\* C26 witness: the last day of a leap year, one second before midnight,
\* came back unchanged
C26_Witness ==
    /\ pure.fn = "granule_id"
    /\ ~pure.raised
    /\ pure.s = <<"HLS", "L30", "T01GBH",
                  [date |-> <<2, 0, 2, 4, 3, 6, 6>>,
                   time |-> <<2, 3, 5, 9, 5, 9>>], "v2", "0">>
    /\ pure.out = pure.s


(***************************************************************************)
(* C27: the event embedded in a job at submission is recovered unchanged   *)
(* at classification: get_granule_event on the detail of a job submitted   *)
(* with e.to_environment() returns an event with e's granule id and        *)
(* attempt; a detail lacking the granule-id or the attempt parameter makes *)
(* get_granule_event fail instead of returning an event.                   *)
(***************************************************************************)
C27_EventRecoveredFromJob ==
    pure.fn = "get_granule_event" =>
        IF pure.dropped = {}
        THEN /\ ~pure.raised
             /\ pure.out.granule_id = pure.event.granule_id
             /\ pure.out.attempt = pure.event.attempt
        ELSE pure.raised

\* C27 witness: a debug event of attempt 10 was recovered from its job
C27_Witness ==
    /\ pure.fn = "get_granule_event"
    /\ pure.dropped = {}
    /\ pure.event = [granule_id |-> "B", attempt |-> 10,
                     debug_bucket |-> "debug-bucket"]
    /\ ~pure.raised
    /\ pure.out.attempt = 10


(***************************************************************************)
(* C28: overlapping monitor invocations for different (granule, attempt)   *)
(* pairs never conflict in the log store: distinct pairs have distinct     *)
(* keys within each outcome partition; no step of an invocation writes or  *)
(* deletes a log of a granule other than its own; and when the calls are   *)
(* for different granules the logs of each granule end up as the call      *)
(* alone would have left them, in every interleaving.                      *)
(***************************************************************************)
C28_DifferentGranulesNeverConflict ==
    [][/\ \A e1 \in LoggedEvents, e2 \in LoggedEvents :
              \A outcome \in Range(ProcessingOutcomes) :
                  PathForEventOutcome(e1, outcome) =
                      PathForEventOutcome(e2, outcome) => e1 = e2
       /\ \A m \in Putters :
              putters'[m] # putters[m] /\ putters[m].pc # "idle" =>
                  \A g \in RetryGranules :
                      g # PutterGranule(putters[m]) =>
                          LogsOf(logs', g) = LogsOf(logs, g)
       /\ \A m \in Putters, other \in Putters :
              (/\ putters'[m].pc = "done"
               /\ putters'[other].pc # "idle"
               /\ PutterGranule(putters'[m]) # PutterGranule(putters'[other]))
              => LogsOf(logs', PutterGranule(putters'[m])) =
                     LogsOf(PutEventDetails(putters'[m].before,
                                            putters'[m].detail),
                            PutterGranule(putters'[m]))]_vars

\* C28 witness: two promotions, for granules A and B, are both between the
\* copy and the delete of a failure log
C28_Witness ==
    /\ putters["m1"].pc = "delete"
    /\ putters["m2"].pc = "delete"
    /\ PutterGranule(putters["m1"]) = "A"
    /\ PutterGranule(putters["m2"]) = "B"

(***************************************************************************)
(* C29: promotion tolerates staleness: a put_event_details of a SUCCESS    *)
(* that finds no failure log of the granule completes without error, and   *)
(* when a promotion overlaps another promotion or a new failure log of the *)
(* same granule, every put_event_details call still completes without     *)
(* raising.                                                                *)
(***************************************************************************)
C29_PromotionNeverRaises ==
    \A m \in Putters : putters[m].pc # "raised"


(***************************************************************************)
(* C30: a single get_next_granule_ids(tracking, n) call advances the       *)
(* cursor of exactly one catalog file, the first incomplete one, by        *)
(* min(n, total_count - submitted_count), and leaves every other file's    *)
(* cursor and the concurrency token unchanged; the ids it returns are of   *)
(* that file's rows only.                                                  *)
(***************************************************************************)
C30_AdvancesOnlyFirstIncompleteFile ==
    (gnLast.called /\ HasNextInventory(gnLast.before)) =>
        LET next == GetNextInventory(gnLast.before)
            rows == DatasetRows(catalog, next.inventory)
        IN  /\ \A i \in 1..Len(gnTracking.inventories) :
                   LET after  == gnTracking.inventories[i].value
                       before == gnLast.before.inventories[i].value
                   IN  IF before.inventory = next.inventory
                       THEN after.submitted_count =
                                before.submitted_count +
                                Min(gnLast.count,
                                    before.total_count - before.submitted_count)
                       ELSE after = before
            /\ gnTracking.etag = gnLast.before.etag
            /\ \A k \in 1..Len(gnLast.granule_ids) :
                   \E r \in 1..Len(rows) :
                       rows[r].granule_id = gnLast.granule_ids[k]

C32_SuccessLogRecordsSuccess ==
    (logLast.called /\ GetJobOutcome(logLast.detail) = "SUCCESS") =>
        LET success_path == PathForEventOutcome(GetGranuleEvent(logLast.detail),
                                                "SUCCESS")
        IN  /\ S3Exists(logs, success_path)
            /\ S3Body(logs, success_path).outcome = "SUCCESS"

(***************************************************************************)
(* C33: promotion never loses an attempt log: at every step of             *)
(* _clean_failures, whatever the other calls do and also when a call takes *)
(* no further step after any of its requests (a crash), every (granule,    *)
(* attempt) that has a log in some outcome partition still has a log in    *)
(* some outcome partition after the step.                                  *)
(***************************************************************************)
C33_NoAttemptLogLost ==
    [][\A o \in logs :
           \E kept \in logs' : PathToEvent(kept.key) = PathToEvent(o.key)]_vars

\* C33 witness: a promotion has returned after it moved the failure log of
\* attempt 0 of its granule, which is now in the SUCCESS partition only
C33_Witness ==
    \E m \in Putters :
        /\ putters[m].pc = "done"
        /\ S3Exists(putters[m].before,
                    <<"failure", PutterGranule(putters[m]), 0>>)
        /\ ~S3Exists(logs, <<"failure", PutterGranule(putters[m]), 0>>)
        /\ S3Exists(logs, <<"success", PutterGranule(putters[m]), 0>>)

(***************************************************************************)
(* C34: if a job submission raises in the middle of a feeder batch, the    *)
(* invocation fails and the stored ledger is left exactly as the           *)
(* invocation read (or created) it, no cursor advanced, so the next        *)
(* invocation with the same count is handed the whole batch again, the     *)
(* granules already submitted included.                                    *)
(***************************************************************************)
C34_FailedBatchIsResubmittedWhole ==
    [][\A p \in Feeders :
           (/\ feeder[p].pc = "submit"
            /\ feeder'[p].pc = "idle"
            /\ feeder'[p].result = "raised")
           => /\ ledger' = ledger
              /\ ledger.exists
              /\ ledger.body = hist[feeder[p].readAt]
              /\ LET again == GetNextGranuleIds(
                                  catalog,
                                  FromNdjson(ledger'.body, ETag(ledger'.body)),
                                  feeder[p].count)
                     left  == Len(feeder[p].granule_ids)
                 IN  /\ ~again.raised
                     /\ again.tracking = feeder[p].tracking
                     /\ Len(again.granule_ids) >= left
                     /\ SubSeq(again.granule_ids,
                               Len(again.granule_ids) - left + 1,
                               Len(again.granule_ids)) = feeder[p].granule_ids]_vars

\* C34 witness: after a submission raised, with no update of the ledger
\* made, a granule has been submitted twice by non-debug invocations
C34_Witness ==
    /\ feeder[Resumed].pc = "idle"
    /\ feeder[Resumed].result = "raised"
    /\ commits = {}
    /\ ledger.exists
    /\ \E g \in Granules : submitted[g].normal = 2

(***************************************************************************)
(* C35: in every ledger state reachable by feeder invocations from a fresh *)
(* create the files are consumed strictly in order: every file before the  *)
(* first incomplete file is complete, every file after it has              *)
(* submitted_count 0, and at most one file has                             *)
(* 0 < submitted_count < total_count.                                      *)
(***************************************************************************)
C35_FilesConsumedInOrder ==
    /\ ledger.exists => ConsumedInOrder(ledger.body)
    /\ \A i \in 1..Len(hist) : ConsumedInOrder(hist[i])

\* C35 witness: the first file is complete and the cursor of the second
\* file is inside the file
C35_Witness ==
    /\ ledger.exists
    /\ ProgressIsComplete(ledger.body[1])
    /\ PartlySubmitted(ledger.body) = {2}

(***************************************************************************)
(* C36: progress: every non-debug feeder invocation that has capacity, a   *)
(* submit count n >= 1, an incomplete ledger, no submission error and no   *)
(* conflicting writer strictly increases the stored submitted_count of one *)
(* file: it does not end before the submission loop, and its update stores *)
(* a larger cursor for some file.                                          *)
(***************************************************************************)
C36_InvocationMakesProgress ==
    [][\A p \in Feeders :
           (/\ feeder[p].count >= 1
            /\ ~feeder[p].debug
            /\ ledger'.exists
            /\ ~BodyComplete(ledger'.body))
           => /\ ~(/\ feeder[p].pc \in {"get_tracking", "create_tracking"}
                   /\ feeder'[p].pc = "idle")
              /\ (/\ feeder[p].pc = "submit"
                  /\ feeder'[p].pc = "idle"
                  /\ feeder'[p].result = "returned"
                  /\ ledger.exists
                  /\ ~BodyComplete(ledger.body))
                 => \E i \in 1..Len(ledger.body) :
                        ledger'.body[i].submitted_count >
                            ledger.body[i].submitted_count]_vars

(***************************************************************************)
(* C37: every retryable failure that is escalated is eventually retried:   *)
(* whenever a message of the monitor for granule g, written for the failed *)
(* attempt n, is on the retry queue, the requeuer eventually submits a new *)
(* job of g with an attempt number larger than n; a job is submitted only  *)
(* for a message of the retry queue, and a monitor invocation on a         *)
(* FAILURE_NONRETRYABLE or SUCCESS outcome puts nothing on the retry queue *)
(* and submits nothing.                                                    *)
(***************************************************************************)
C37_EscalatedFailureIsRetried ==
    /\ \A g \in RetryGranules, n \in 0..MaxAttempt :
           (\E i \in 1..Len(retryQueue) :
                /\ FromJson(retryQueue[i]).granule_id = g
                /\ FromJson(retryQueue[i]).attempt = n + 1)
           ~> (\E job \in submittedJobs :
                   job.granule_id = g /\ job.attempt > n)
    /\ [][/\ \A job \in submittedJobs' \ submittedJobs :
                 \E i \in 1..Len(retryQueue) :
                     /\ FromJson(retryQueue[i]).granule_id = job.granule_id
                     /\ FromJson(retryQueue[i]).attempt < job.attempt
          /\ (/\ monLast'.handled
              /\ GetJobOutcome(monLast'.detail) # "FAILURE_RETRYABLE")
             => /\ retryQueue' = retryQueue
                /\ submittedJobs' = submittedJobs]_vars

\* C37 witness: a granule has been resubmitted after a retryable failure
\* of a resubmitted job, and a job that failed for good was not: its message
\* is on the dead-letter queue and the retry queue is empty
C37_Witness ==
    /\ retryQueue = <<>>
    /\ dlq # <<>>
    /\ \E job \in submittedJobs : job.attempt > 2
    /\ \E g \in RetryGranules :
           \A job \in submittedJobs : job.granule_id # g

(***************************************************************************)
(* C38: get_next_granule_ids called with a count n <= 0 returns no granule *)
(* ids and leaves every submitted_count unchanged: a negative count never  *)
(* moves a cursor backwards or below 0.                                    *)
(***************************************************************************)
C38_NonPositiveCountChangesNothing ==
    (gnLast.called /\ gnLast.count <= 0) =>
        /\ ~gnLast.raised
        /\ gnLast.granule_ids = <<>>
        /\ \A i \in 1..Len(gnTracking.inventories) :
               gnTracking.inventories[i].value.submitted_count =
                   gnLast.before.inventories[i].value.submitted_count

====
